---- MODULE Spec2Model ----
(***************************************************************************)
(* MeetiX OS: the lazily initialised locked heap (LibHeap/locked.rs over   *)
(* LibSync's Mutex) and the ObjId capability handle (LibApi/objs/object.rs)*)
(***************************************************************************)
EXTENDS Integers, Sequences, FiniteSets, TLC

(* ------------------------------ bounds --------------------------------- *)
NumThreads == 2
MaxMem == 2
MaxHandles == 2
MaxObj == 1
MaxInbox == 1
MaxClassIn == 21
MaxIdIn == 8
BLOCK_SIZE == 2
MaxBlocks == 4
MaxRegions == 2
MaxOut == 2
MaxLimb == 1
MaxUses == 2
MaxWatched == 2
MaxInfos == 4
MaxBootRefs == 4
MaxRawLen == 4
VFS_PATH_LEN_MAX == 6
BIT_LEN == 4
NumFlags == 3
MaxChunk == 2
MaxLog == 4
NumLockers == 3

Threads == 1 .. NumThreads

(***************************************************************************)
(* RawLazyLockedHeap<M>                                                    *)
(*   lazyState   state of the Lazy cell holding the Mutex<M, Heap>         *)
(*   rawMutex    TRUE once the supplier returned the BackRawMutex          *)
(*   heapBuilt   TRUE once Heap::new() returned the Heap                   *)
(*   mtxCalls    number of calls of m_raw_mutex_supplier                   *)
(*   heapCalls   number of calls of Heap::new(m_mem_supplier)              *)
(*   locked      the lock word of the BackRawMutex                         *)
(*   guards      the threads that own a MutexDataGuard                     *)
(*   pc, op      position and current call of every thread                 *)
(*   ret         value the call in progress of every thread returns        *)
(*   owned       blocks every thread got from alloc and did not free yet   *)
(*   memSup      bytes (in blocks) obtained from the HeapMemorySupplier    *)
(*   memUse      bytes (in blocks) currently allocated                     *)
(*   heapPanic   a panic!()/expect() fired                                 *)
(***************************************************************************)
VARIABLES lazyState, rawMutex, heapBuilt, mtxCalls, heapCalls, locked, guards,
          pc, op, ret, owned, memSup, memUse, heapPanic

heapVars == <<lazyState, rawMutex, heapBuilt, mtxCalls, heapCalls, locked,
              guards, pc, op, ret, owned, memSup, memUse, heapPanic>>

(***************************************************************************)
(* ObjId handles of one task and the kernel's object table                 *)
(*   hLive    the handle slots that hold an ObjId value                    *)
(*   hRaw     m_raw of the ObjId in every slot                             *)
(*   kern     kernel side: ref (reference count of every identifier),      *)
(*            res (kind of the resource it names), named (reachable by     *)
(*            name), inbox (identifiers sent and not yet received)         *)
(*   klog     the kernel calls issued by the last handle operation         *)
(*   lastOp   the last handle operation and the slot it acted on           *)
(*   objPanic an unwrap() of a failed kernel call fired                    *)
(***************************************************************************)
VARIABLES hLive, hRaw, kern, klog, lastOp, objPanic

objVars == <<hLive, hRaw, kern, klog, lastOp, objPanic>>

(***************************************************************************)
(* KernFnPath: one use of the system-call path codec                       *)
(*   fpState  "idle", "encoded" (a path was turned into its two numbers    *)
(*            and decoded again) or "decoded" (a pair of usize was decoded)*)
(*   fpPath   the KernFnPath that was encoded                              *)
(*   fpIn     the pair (variant, value) given to try_from                  *)
(*   fpOut    the Result try_from returned                                 *)
(***************************************************************************)
VARIABLES fpState, fpPath, fpIn, fpOut

pathVars == <<fpState, fpPath, fpIn, fpOut>>

(***************************************************************************)
(* Slab<BLOCK_SIZE> and its FreeBlockList                                  *)
(*   slBuilt    Slab::new() returned                                       *)
(*   m_first    address of the first SlabBlock of the list, 0 for None     *)
(*   m_count    the counter of the FreeBlockList                           *)
(*   m_next     memory: the m_next field stored at every address, 0 for    *)
(*              None                                                       *)
(*   slOut      how many times every address is held by the caller         *)
(*              (returned by allocate and not given back)                  *)
(*   slRegions  the regions given with new and add_region, as pairs of     *)
(*              the start address and the number of blocks threaded        *)
(*   slHanded   the areas given with new and add_region, as pairs of the    *)
(*              start address and the size in bytes                        *)
(*   slBrk      the first address the memory supplier did not hand out yet *)
(*   slOp       the last call, its arguments and the value it returned     *)
(*   slContract FALSE once a call broke the contract of deallocate         *)
(***************************************************************************)
VARIABLES slBuilt, m_first, m_count, m_next, slOut, slRegions, slHanded,
          slBrk, slOp, slContract

slabVars == <<slBuilt, m_first, m_count, m_next, slOut, slRegions, slHanded,
              slBrk, slOp, slContract>>

(***************************************************************************)
(* VirtAddr over the x86_64 HwVirtAddr. A usize is a word of four 16 bit   *)
(* limbs, the most significant first                                       *)
(*   vaState  "none", "made" (VirtAddr::from(vaIn) was evaluated) or       *)
(*            "remade" (VirtAddr::from of the dereferenced value made      *)
(*            before)                                                      *)
(*   vaIn     the usize given to VirtAddr::from                            *)
(*   vaAddr   the VirtAddr value                                           *)
(*   vaPrev   the VirtAddr value the last from() was given through Deref   *)
(***************************************************************************)
VARIABLES vaState, vaIn, vaAddr, vaPrev

addrVars == <<vaState, vaIn, vaAddr, vaPrev>>

(***************************************************************************)
(* Watch registrations the kernel keeps for the objects of a task          *)
(*   wRegs   for every object the use-filters of its live registrations;   *)
(*           a filter is the set of the ObjUse bits it has enabled         *)
(*   wOp     the last call: object, filter and the Result it returned      *)
(***************************************************************************)
VARIABLES wRegs, wOp

watchVars == <<wRegs, wOp>>

(***************************************************************************)
(* The boot informations singleton (kernel/shared infos/info.rs)           *)
(*   BOOT_INFOS_INNER  the static Option<BootInfosInner>: 0 for None, else *)
(*                     the informations it stores                          *)
(*   biRefs    the BootInfos instances handed out, each with the           *)
(*             informations it found behind m_inner when it was made       *)
(*   biInits   how many times BOOT_INFOS_INNER was assigned                *)
(*   biOp      the last call and the informations it was given             *)
(*   biPanic   an assert!() failed                                         *)
(***************************************************************************)
VARIABLES BOOT_INFOS_INNER, biRefs, biInits, biOp, biPanic

bootVars == <<BOOT_INFOS_INNER, biRefs, biInits, biOp, biPanic>>

(***************************************************************************)
(* One VFS Path value (libs/api path.rs)                                   *)
(*   vpPath  the Path: m_buf holds the m_len bytes that are in use (the    *)
(*           string as_str() returns), m_abs the absolute flag             *)
(*   vpOp    the last call: its name, whether the raw path given to it     *)
(*           started with the separator, and Path::from() of that raw path *)
(***************************************************************************)
VARIABLES vpPath, vpOp

vfsVars == <<vpPath, vpOp>>

(***************************************************************************)
(* One BitFlags<B, T> value (LibBits bit_flags.rs). A value of B is the    *)
(* set of the indices of its bits that are 1                               *)
(*   bfFlags  m_raw_bits of the BitFlags value f                           *)
(*   bfOp     the last call: its name, the raw bits or the flag given, and *)
(*            the value it returned (some is FALSE for None)               *)
(***************************************************************************)
VARIABLES bfFlags, bfOp

bitsVars == <<bfFlags, bfOp>>

(***************************************************************************)
(* LoggerInner<W> with its LoggerBuffer (kernel/shared logger.rs)          *)
(*   lgBuffer    m_buffer: some is FALSE for None, bytes is the Vec<u8> of *)
(*               the LoggerBuffer                                          *)
(*   m_buffered  the line-buffering flag                                   *)
(*   lgWriter    the bytes m_writer received, in order                     *)
(*   lgWritten   the bytes of all strings given to write_str, in order     *)
(*   lgLine      TRUE while every write so far was made with the           *)
(*               line-buffering enabled                                    *)
(*   lgFailed    TRUE once a write_str returned Err                        *)
(***************************************************************************)
VARIABLES lgBuffer, m_buffered, lgWriter, lgWritten, lgLine, lgFailed

logVars == <<lgBuffer, m_buffered, lgWriter, lgWritten, lgLine, lgFailed>>

(***************************************************************************)
(* A Mutex<R, T> shared by several threads (LibSync mutex/mod.rs)          *)
(*   mxHolder  the raw mutex: 0 when unlocked, else the thread whose       *)
(*             do_lock()/do_try_lock() succeeded last                      *)
(*   mxGuard   the threads that own a MutexDataGuard                       *)
(*   mxProbe   per thread: pc is "unlock" between the do_try_lock() and    *)
(*             the do_unlock() of do_is_locked(), else "none"; ret is the  *)
(*             answer do_is_locked() gives after the do_unlock()           *)
(*   mxBefore  per thread: mxHolder at the do_try_lock() of its last probe *)
(*   mxOp      the last call that returned, with its result                *)
(***************************************************************************)
VARIABLES mxHolder, mxGuard, mxProbe, mxBefore, mxOp

mxVars == <<mxHolder, mxGuard, mxProbe, mxBefore, mxOp>>

(***************************************************************************)
(* Drop for ObjId as the two kernel calls it makes                         *)
(*   hDropping  the handles whose drop() got true from is_valid() and has  *)
(*              not made its Drop call yet                                 *)
(***************************************************************************)
VARIABLES hDropping

dropVars == <<hDropping>>

vars == <<heapVars, objVars, pathVars, slabVars, addrVars, watchVars,
          bootVars, vfsVars, bitsVars, logVars, mxVars, dropVars>>

notHeap == <<objVars, pathVars, slabVars, addrVars, watchVars, bootVars,
             vfsVars, bitsVars, logVars, mxVars, dropVars>>
notObj == <<heapVars, pathVars, slabVars, addrVars, watchVars, bootVars,
            vfsVars, bitsVars, logVars, mxVars, dropVars>>
notPath == <<heapVars, objVars, slabVars, addrVars, watchVars, bootVars,
             vfsVars, bitsVars, logVars, mxVars, dropVars>>
notSlab == <<heapVars, objVars, pathVars, addrVars, watchVars, bootVars,
             vfsVars, bitsVars, logVars, mxVars, dropVars>>
notAddr == <<heapVars, objVars, pathVars, slabVars, watchVars, bootVars,
             vfsVars, bitsVars, logVars, mxVars, dropVars>>
notWatch == <<heapVars, objVars, pathVars, slabVars, addrVars, bootVars,
              vfsVars, bitsVars, logVars, mxVars, dropVars>>
notBoot == <<heapVars, objVars, pathVars, slabVars, addrVars, watchVars,
             vfsVars, bitsVars, logVars, mxVars, dropVars>>
notVfs == <<heapVars, objVars, pathVars, slabVars, addrVars, watchVars,
            bootVars, bitsVars, logVars, mxVars, dropVars>>
notBits == <<heapVars, objVars, pathVars, slabVars, addrVars, watchVars,
             bootVars, vfsVars, logVars, mxVars, dropVars>>
notLog == <<heapVars, objVars, pathVars, slabVars, addrVars, watchVars,
            bootVars, vfsVars, bitsVars, mxVars, dropVars>>
notMx == <<heapVars, objVars, pathVars, slabVars, addrVars, watchVars,
           bootVars, vfsVars, bitsVars, logVars, dropVars>>
notDrop == <<heapVars, objVars, pathVars, slabVars, addrVars, watchVars,
             bootVars, vfsVars, bitsVars, logVars, mxVars>>
notObjDrop == <<heapVars, pathVars, slabVars, addrVars, watchVars, bootVars,
                vfsVars, bitsVars, logVars, mxVars>>

NullPtr == 0
Block == 1

LockOps == {"alloc", "dealloc", "memory_from_supplier", "memory_in_use",
            "memory_available", "force_init"}

(* new() that runs the initialiser itself: both suppliers are called and
   the Mutex<Heap> is stored before any method is called *)
InitHeap_eager ==
    /\ lazyState = "Ready"
    /\ rawMutex = TRUE
    /\ heapBuilt = TRUE
    /\ mtxCalls = 1
    /\ heapCalls = 1
    /\ locked = FALSE
    /\ guards = {}
    /\ pc = [t \in Threads |-> "idle"]
    /\ op = [t \in Threads |-> "none"]
    /\ ret = [t \in Threads |-> 0]
    /\ owned = [t \in Threads |-> 0]
    /\ memSup = 0
    /\ memUse = 0
    /\ heapPanic = FALSE

InitHeap ==
    /\ lazyState = "Uninitialized"
    /\ rawMutex = FALSE
    /\ heapBuilt = FALSE
    /\ mtxCalls = 0
    /\ heapCalls = 0
    /\ locked = FALSE
    /\ guards = {}
    /\ pc = [t \in Threads |-> "idle"]
    /\ op = [t \in Threads |-> "none"]
    /\ ret = [t \in Threads |-> 0]
    /\ owned = [t \in Threads |-> 0]
    /\ memSup = 0
    /\ memUse = 0
    /\ heapPanic = FALSE

(* dealloc without the NonNull::new() test: a null pointer goes on to the
   heap like any other *)
Call_nocheck(t, o, ptr) ==
    /\ ~heapPanic
    /\ pc[t] = "idle"
    /\ o \in LockOps
    /\ IF o = "dealloc"
         THEN ptr = NullPtr \/ (ptr = Block /\ owned[t] > 0)
         ELSE ptr = NullPtr
    /\ op' = [op EXCEPT ![t] = o]
    /\ heapPanic' = heapPanic
    /\ pc' = [pc EXCEPT ![t] = "deref"]
    /\ UNCHANGED <<lazyState, rawMutex, heapBuilt, mtxCalls, heapCalls, locked,
                   guards, ret, owned, memSup, memUse>>
    /\ UNCHANGED notHeap

(* A thread enters one of the lock-taking methods; dealloc is entered with
   a pointer, which is null or one of the caller's blocks. *)
Call(t, o, ptr) ==
    /\ ~heapPanic
    /\ pc[t] = "idle"
    /\ o \in LockOps
    /\ IF o = "dealloc"
         THEN ptr = NullPtr \/ (ptr = Block /\ owned[t] > 0)
         ELSE ptr = NullPtr
    /\ op' = [op EXCEPT ![t] = o]
    /\ IF o = "dealloc" /\ ptr = NullPtr
         THEN /\ heapPanic' = TRUE
              /\ pc' = pc
         ELSE /\ heapPanic' = heapPanic
              /\ pc' = [pc EXCEPT ![t] = "deref"]
    /\ UNCHANGED <<lazyState, rawMutex, heapBuilt, mtxCalls, heapCalls, locked,
                   guards, ret, owned, memSup, memUse>>
    /\ UNCHANGED notHeap

(* LazyDeref without the once-guard: every caller that does not find the
   value runs the initialiser. *)
LazyDeref_reinit(t) ==
    /\ ~heapPanic
    /\ pc[t] = "deref"
    /\ IF lazyState # "Ready"
         THEN /\ lazyState' = "Initializing"
              /\ pc' = [pc EXCEPT ![t] = "call_once"]
         ELSE /\ lazyState' = lazyState
              /\ pc' = [pc EXCEPT ![t] = "lock"]
    /\ UNCHANGED <<rawMutex, heapBuilt, mtxCalls, heapCalls, locked, guards,
                   op, ret, owned, memSup, memUse, heapPanic>>
    /\ UNCHANGED notHeap

(* LazyDeref that does not wait for a running initialiser. *)
LazyDeref_nowait(t) ==
    /\ ~heapPanic
    /\ pc[t] = "deref"
    /\ IF lazyState = "Uninitialized"
         THEN /\ lazyState' = "Initializing"
              /\ pc' = [pc EXCEPT ![t] = "call_once"]
         ELSE /\ lazyState' = lazyState
              /\ pc' = [pc EXCEPT ![t] = "lock"]
    /\ UNCHANGED <<rawMutex, heapBuilt, mtxCalls, heapCalls, locked, guards,
                   op, ret, owned, memSup, memUse, heapPanic>>
    /\ UNCHANGED notHeap

(* Deref of the Lazy cell: the first caller becomes the initialiser, callers
   that arrive while it runs wait, later callers get the stored value. *)
LazyDeref(t) ==
    /\ ~heapPanic
    /\ pc[t] = "deref"
    /\ lazyState # "Initializing"
    /\ IF lazyState = "Uninitialized"
         THEN /\ lazyState' = "Initializing"
              /\ pc' = [pc EXCEPT ![t] = "call_once"]
         ELSE /\ lazyState' = lazyState
              /\ pc' = [pc EXCEPT ![t] = "lock"]
    /\ UNCHANGED <<rawMutex, heapBuilt, mtxCalls, heapCalls, locked, guards,
                   op, ret, owned, memSup, memUse, heapPanic>>
    /\ UNCHANGED notHeap

(* call_once that goes on without a mutex when the supplier returns None *)
CallOnceMutex_proceed(t, some) ==
    /\ ~heapPanic
    /\ pc[t] = "call_once"
    /\ mtxCalls' = mtxCalls + 1
    /\ rawMutex' = some
    /\ pc' = [pc EXCEPT ![t] = "heap_new"]
    /\ heapPanic' = heapPanic
    /\ UNCHANGED <<lazyState, heapBuilt, heapCalls, locked, guards, op, ret,
                   owned, memSup, memUse>>
    /\ UNCHANGED notHeap

(* LazyHeapInitializer::call_once, first statement: the mutex supplier. *)
CallOnceMutex(t, some) ==
    /\ ~heapPanic
    /\ pc[t] = "call_once"
    /\ mtxCalls' = mtxCalls + 1
    /\ IF some
         THEN /\ rawMutex' = TRUE
              /\ pc' = [pc EXCEPT ![t] = "heap_new"]
              /\ heapPanic' = heapPanic
         ELSE /\ rawMutex' = rawMutex
              /\ pc' = pc
              /\ heapPanic' = TRUE
    /\ UNCHANGED <<lazyState, heapBuilt, heapCalls, locked, guards, op, ret,
                   owned, memSup, memUse>>
    /\ UNCHANGED notHeap

(* LazyHeapInitializer::call_once, second statement: Heap::new() and
   Mutex::raw_new(); the value returned is stored in the Lazy cell. *)
CallOnceHeap(t, some) ==
    /\ ~heapPanic
    /\ pc[t] = "heap_new"
    /\ heapCalls' = heapCalls + 1
    /\ IF some
         THEN /\ heapBuilt' = TRUE
              /\ lazyState' = "Ready"
              /\ pc' = [pc EXCEPT ![t] = "lock"]
              /\ heapPanic' = heapPanic
         ELSE /\ heapBuilt' = heapBuilt
              /\ lazyState' = lazyState
              /\ pc' = pc
              /\ heapPanic' = TRUE
    /\ UNCHANGED <<rawMutex, mtxCalls, locked, guards, op, ret, owned, memSup,
                   memUse>>
    /\ UNCHANGED notHeap

(* BackRawMutex::do_lock: blocks until the lock word is free, then takes it *)
do_lock(t) ==
    /\ ~locked
    /\ locked' = TRUE

(* Mutex::lock that hands out the guard without do_lock(). *)
MutexLock_nolock(t) ==
    /\ ~heapPanic
    /\ pc[t] = "lock"
    /\ locked' = TRUE
    /\ guards' = guards \cup {t}
    /\ pc' = [pc EXCEPT ![t] = "heap"]
    /\ UNCHANGED <<lazyState, rawMutex, heapBuilt, mtxCalls, heapCalls, op,
                   ret, owned, memSup, memUse, heapPanic>>
    /\ UNCHANGED notHeap

(* Mutex::lock: do_lock(), then the MutexDataGuard is handed out. *)
MutexLock(t) ==
    /\ ~heapPanic
    /\ pc[t] = "lock"
    /\ do_lock(t)
    /\ guards' = guards \cup {t}
    /\ pc' = [pc EXCEPT ![t] = "heap"]
    /\ UNCHANGED <<lazyState, rawMutex, heapBuilt, mtxCalls, heapCalls, op,
                   ret, owned, memSup, memUse, heapPanic>>
    /\ UNCHANGED notHeap

(* alloc that unwraps the Option of Heap::allocate: None is a panic *)
HeapOp_unwrap(t, supplied) ==
    /\ ~heapPanic
    /\ pc[t] = "heap"
    /\ pc' = [pc EXCEPT ![t] = "unlock"]
    /\ CASE op[t] = "alloc" ->
              IF memUse < memSup
                THEN /\ memUse' = memUse + 1
                     /\ memSup' = memSup
                     /\ owned' = [owned EXCEPT ![t] = @ + 1]
                     /\ ret' = [ret EXCEPT ![t] = Block]
                     /\ heapPanic' = heapPanic
                ELSE IF supplied /\ memSup < MaxMem
                       THEN /\ memSup' = memSup + 1
                            /\ memUse' = memUse + 1
                            /\ owned' = [owned EXCEPT ![t] = @ + 1]
                            /\ ret' = [ret EXCEPT ![t] = Block]
                            /\ heapPanic' = heapPanic
                       ELSE /\ ret' = [ret EXCEPT ![t] = NullPtr]
                            /\ heapPanic' = TRUE
                            /\ UNCHANGED <<memSup, memUse, owned>>
         [] op[t] = "dealloc" ->
              /\ memUse' = memUse - 1
              /\ owned' = [owned EXCEPT ![t] = @ - 1]
              /\ UNCHANGED <<memSup, ret, heapPanic>>
         [] op[t] = "memory_from_supplier" ->
              /\ ret' = [ret EXCEPT ![t] = memSup]
              /\ UNCHANGED <<memSup, memUse, owned, heapPanic>>
         [] op[t] \in {"memory_in_use", "force_init"} ->
              /\ ret' = [ret EXCEPT ![t] = memUse]
              /\ UNCHANGED <<memSup, memUse, owned, heapPanic>>
         [] op[t] = "memory_available" ->
              /\ ret' = [ret EXCEPT ![t] = memSup - memUse]
              /\ UNCHANGED <<memSup, memUse, owned, heapPanic>>
    /\ UNCHANGED <<lazyState, rawMutex, heapBuilt, mtxCalls, heapCalls, locked,
                   guards, op>>
    /\ UNCHANGED notHeap

(* The Heap call made through the guard. allocate takes a free block, or
   asks the supplier for one more block, or fails with None (null). *)
HeapOp(t, supplied) ==
    /\ ~heapPanic
    /\ pc[t] = "heap"
    /\ pc' = [pc EXCEPT ![t] = "unlock"]
    /\ CASE op[t] = "alloc" ->
              IF memUse < memSup
                THEN /\ memUse' = memUse + 1
                     /\ memSup' = memSup
                     /\ owned' = [owned EXCEPT ![t] = @ + 1]
                     /\ ret' = [ret EXCEPT ![t] = Block]
                ELSE IF supplied /\ memSup < MaxMem
                       THEN /\ memSup' = memSup + 1
                            /\ memUse' = memUse + 1
                            /\ owned' = [owned EXCEPT ![t] = @ + 1]
                            /\ ret' = [ret EXCEPT ![t] = Block]
                       ELSE /\ ret' = [ret EXCEPT ![t] = NullPtr]
                            /\ UNCHANGED <<memSup, memUse, owned>>
         [] op[t] = "dealloc" ->
              /\ memUse' = memUse - 1
              /\ owned' = [owned EXCEPT ![t] = @ - 1]
              /\ UNCHANGED <<memSup, ret>>
         [] op[t] = "memory_from_supplier" ->
              /\ ret' = [ret EXCEPT ![t] = memSup]
              /\ UNCHANGED <<memSup, memUse, owned>>
         [] op[t] \in {"memory_in_use", "force_init"} ->
              /\ ret' = [ret EXCEPT ![t] = memUse]
              /\ UNCHANGED <<memSup, memUse, owned>>
         [] op[t] = "memory_available" ->
              /\ ret' = [ret EXCEPT ![t] = memSup - memUse]
              /\ UNCHANGED <<memSup, memUse, owned>>
    /\ UNCHANGED <<lazyState, rawMutex, heapBuilt, mtxCalls, heapCalls, locked,
                   guards, op, heapPanic>>
    /\ UNCHANGED notHeap

(* a guard that is forgotten instead of dropped: the call returns with the
   mutex still taken *)
MutexUnlock_forget(t) ==
    /\ ~heapPanic
    /\ pc[t] = "unlock"
    /\ locked' = locked
    /\ guards' = guards \ {t}
    /\ pc' = [pc EXCEPT ![t] = "idle"]
    /\ op' = [op EXCEPT ![t] = "none"]
    /\ ret' = [ret EXCEPT ![t] = 0]
    /\ UNCHANGED <<lazyState, rawMutex, heapBuilt, mtxCalls, heapCalls, owned,
                   memSup, memUse, heapPanic>>
    /\ UNCHANGED notHeap

(* The MutexDataGuard goes out of scope at the end of the call: do_unlock *)
MutexUnlock(t) ==
    /\ ~heapPanic
    /\ pc[t] = "unlock"
    /\ locked' = FALSE
    /\ guards' = guards \ {t}
    /\ pc' = [pc EXCEPT ![t] = "idle"]
    /\ op' = [op EXCEPT ![t] = "none"]
    /\ ret' = [ret EXCEPT ![t] = 0]
    /\ UNCHANGED <<lazyState, rawMutex, heapBuilt, mtxCalls, heapCalls, owned,
                   memSup, memUse, heapPanic>>
    /\ UNCHANGED notHeap

(* the statements of a call that do not wait for the mutex *)
Running(t) ==
    \/ LazyDeref(t)
    \/ \E some \in BOOLEAN : CallOnceMutex(t, some)
    \/ \E some \in BOOLEAN : CallOnceHeap(t, some)
    \/ \E supplied \in BOOLEAN : HeapOp(t, supplied)
    \/ MutexUnlock(t)

NextHeap ==
    \/ \E t \in Threads, o \in LockOps, ptr \in {NullPtr, Block} : Call(t, o, ptr)
    \/ \E t \in Threads : LazyDeref(t)
    \/ \E t \in Threads, some \in BOOLEAN : CallOnceMutex(t, some)
    \/ \E t \in Threads, some \in BOOLEAN : CallOnceHeap(t, some)
    \/ \E t \in Threads : MutexLock(t)
    \/ \E t \in Threads, supplied \in BOOLEAN : HeapOp(t, supplied)
    \/ \E t \in Threads : MutexUnlock(t)

(* one allocate, one deallocate, one stat read: the accessors and
   force_init all are lock() followed by one read of the Heap, and
   memory_in_use stands for them where progress is checked *)
HeldOps == {"alloc", "dealloc", "memory_in_use"}

NextHeapFair ==
    \/ \E t \in Threads, o \in HeldOps, ptr \in {NullPtr, Block} : Call(t, o, ptr)
    \/ \E t \in Threads : LazyDeref(t)
    \/ \E t \in Threads, some \in BOOLEAN : CallOnceMutex(t, some)
    \/ \E t \in Threads, some \in BOOLEAN : CallOnceHeap(t, some)
    \/ \E t \in Threads : MutexLock(t)
    \/ \E t \in Threads, supplied \in BOOLEAN : HeapOp(t, supplied)
    \/ \E t \in Threads : MutexUnlock(t)

(***************************************************************************)
(* The kernel side of the Object calls                                     *)
(***************************************************************************)

Slots == 1 .. MaxHandles
ObjIds == 1 .. MaxObj

Entry(fn, id, ok) == [fn |-> fn, id |-> id, ok |-> ok]

(* an identifier names a live entry of the kernel's table *)
KLive(k, id) == id \in ObjIds /\ k.ref[id] > 0

(* kernel: release one reference; the resource is destroyed with the last
   one unless it is a permanent object that is still named *)
KRelease(k, id) ==
    IF k.ref[id] = 1 /\ (k.res[id] = "transient" \/ ~k.named[id])
      THEN [k EXCEPT !.ref[id] = 0, !.res[id] = "none", !.named[id] = FALSE]
      ELSE [k EXCEPT !.ref[id] = @ - 1]

(* identifiers in flight to the receiver *)
InFlight(k) == {k.inbox[i] : i \in 1 .. Len(k.inbox)}

(* One kernel call of class Object on the handle bits `id`; `arg` stands
   for the validity of the call's argument (receiver task, object type). *)
KernCall(k, fn, id, arg) ==
    CASE fn = "IsValid" -> [ok |-> KLive(k, id), val |-> 0, k |-> k]
      [] fn = "AddRef" ->
           IF KLive(k, id)
             THEN [ok |-> TRUE, val |-> 0, k |-> [k EXCEPT !.ref[id] = @ + 1]]
             ELSE [ok |-> FALSE, val |-> 0, k |-> k]
      [] fn = "Drop" ->
           IF KLive(k, id)
             THEN [ok |-> TRUE, val |-> 0, k |-> KRelease(k, id)]
             ELSE [ok |-> FALSE, val |-> 0, k |-> k]
      [] fn = "Send" ->
           IF KLive(k, id) /\ arg /\ Len(k.inbox) < MaxInbox
             THEN [ok |-> TRUE, val |-> 0,
                   k |-> [k EXCEPT !.inbox = Append(@, id)]]
             ELSE [ok |-> FALSE, val |-> 0, k |-> k]
      [] fn = "Recv" ->
           IF k.inbox # <<>> /\ arg
             THEN LET new == Head(k.inbox) IN
                  IF k.res[new] # "none"
                    THEN [ok |-> TRUE, val |-> new,
                          k |-> [k EXCEPT !.inbox = Tail(@),
                                          !.ref[new] = @ + 1]]
                    ELSE [ok |-> FALSE, val |-> 0,
                          k |-> [k EXCEPT !.inbox = Tail(@)]]
             ELSE [ok |-> FALSE, val |-> 0, k |-> k]
      [] fn = "DropName" ->
           IF KLive(k, id) /\ k.res[id] = "permanent" /\ k.named[id]
             THEN [ok |-> TRUE, val |-> 0, k |-> [k EXCEPT !.named[id] = FALSE]]
             ELSE [ok |-> FALSE, val |-> 0, k |-> k]

(* kernel: a creation call makes a new resource under an unused identifier *)
KCreate(k, id, kind) ==
    [k EXCEPT !.ref[id] = 1, !.res[id] = kind, !.named[id] = (kind = "permanent")]

(* kernel: opening a named permanent object adds a reference to it *)
KOpen(k, id) == [k EXCEPT !.ref[id] = @ + 1]

(***************************************************************************)
(* ObjId                                                                   *)
(***************************************************************************)
(* From<u32> for ObjId *)
From_u32(raw_id) == raw_id

(* From<usize> for ObjId: `raw_id as u32` keeps the low 32 bits; the kernel
   hands out 32 bit identifiers, which the cast leaves as they are *)
From_usize(raw_id) == From_u32(raw_id)

(* ObjId::as_raw *)
as_raw(m_raw) == m_raw

(* KernCaller::kern_call_N of an ObjId: the call carries as_raw() *)
kern_call(k, fn, m_raw, arg) == KernCall(k, fn, as_raw(m_raw), arg)

(* is_valid as a local zero check only, without the kernel query *)
is_valid_local(k, m_raw) ==
    [ret |-> m_raw # 0, log |-> <<>>, k |-> k]

(* is_valid that queries the kernel for the zero identifier too *)
is_valid_always(k, m_raw) ==
    LET r == kern_call(k, "IsValid", m_raw, TRUE) IN
    [ret |-> r.ok, log |-> <<Entry("IsValid", m_raw, r.ok)>>, k |-> r.k]

(* ObjId::is_valid *)
is_valid(k, m_raw) ==
    IF m_raw # 0
      THEN LET r == kern_call(k, "IsValid", m_raw, TRUE) IN
           [ret |-> r.ok, log |-> <<Entry("IsValid", m_raw, r.ok)>>, k |-> r.k]
      ELSE [ret |-> FALSE, log |-> <<>>, k |-> k]

(* drop that calls the kernel without asking is_valid() *)
drop_unchecked(k, m_raw) ==
    LET r == kern_call(k, "Drop", m_raw, TRUE) IN
    [k |-> r.k, log |-> <<Entry("Drop", m_raw, r.ok)>>, panic |-> FALSE]

(* Drop for ObjId *)
drop(k, m_raw) ==
    LET v == is_valid(k, m_raw) IN
    IF v.ret
      THEN LET r == kern_call(v.k, "Drop", m_raw, TRUE) IN
           [k |-> r.k, log |-> v.log \o <<Entry("Drop", m_raw, r.ok)>>,
            panic |-> ~r.ok]
      ELSE [k |-> v.k, log |-> v.log, panic |-> FALSE]

(* clone as a bit copy of the handle (a derived Clone) *)
clone_bitcopy(k, m_raw) ==
    [k |-> k, log |-> <<>>, panic |-> FALSE, raw |-> From_u32(m_raw)]

(* Clone for ObjId *)
clone(k, m_raw) ==
    LET r == kern_call(k, "AddRef", m_raw, TRUE) IN
    [k |-> r.k, log |-> <<Entry("AddRef", m_raw, r.ok)>>, panic |-> ~r.ok,
     raw |-> From_u32(m_raw)]

(* send that moves the handle away on success *)
send_move(k, m_raw, receiver) ==
    LET r == kern_call(k, "Send", m_raw, receiver) IN
    [k |-> r.k, log |-> <<Entry("Send", m_raw, r.ok)>>, ok |-> r.ok,
     raw |-> IF r.ok THEN 0 ELSE m_raw, live |-> TRUE]

(* ObjId::send *)
send(k, m_raw, receiver) ==
    LET r == kern_call(k, "Send", m_raw, receiver) IN
    [k |-> r.k, log |-> <<Entry("Send", m_raw, r.ok)>>, ok |-> r.ok,
     raw |-> m_raw, live |-> TRUE]

(* recv that gives up the previous handle before it looks at the result of
   the Recv call *)
recv_dropfirst(k, m_raw, typeOk) ==
    LET r == kern_call(k, "Recv", m_raw, typeOk)
        d == drop(r.k, m_raw) IN
    [k |-> d.k, log |-> <<Entry("Recv", m_raw, r.ok)>> \o d.log,
     ok |-> r.ok, raw |-> IF r.ok THEN From_usize(r.val) ELSE 0,
     panic |-> d.panic]

(* recv that writes the received identifier over the handle without
   dropping the previous value (ptr::write instead of assignment) *)
recv_nodrop(k, m_raw, typeOk) ==
    LET r == kern_call(k, "Recv", m_raw, typeOk) IN
    IF r.ok
      THEN [k |-> r.k, log |-> <<Entry("Recv", m_raw, TRUE)>>,
            ok |-> TRUE, raw |-> From_usize(r.val), panic |-> FALSE]
      ELSE [k |-> r.k, log |-> <<Entry("Recv", m_raw, FALSE)>>, ok |-> FALSE,
            raw |-> m_raw, panic |-> FALSE]

(* ObjId::recv: on success `*self = Self::from(obj_id)` drops the previous
   value of the handle and stores the received one *)
recv(k, m_raw, typeOk) ==
    LET r == kern_call(k, "Recv", m_raw, typeOk) IN
    IF r.ok
      THEN LET d == drop(r.k, m_raw) IN
           [k |-> d.k, log |-> <<Entry("Recv", m_raw, TRUE)>> \o d.log,
            ok |-> TRUE, raw |-> From_usize(r.val), panic |-> d.panic]
      ELSE [k |-> r.k, log |-> <<Entry("Recv", m_raw, FALSE)>>, ok |-> FALSE,
            raw |-> m_raw, panic |-> FALSE]

(* drop_name that answers Ok without the DropName kernel call *)
drop_name_local(k, m_raw) ==
    [k |-> k, log |-> <<>>, ok |-> KLive(k, m_raw)]

(* ObjId::drop_name *)
drop_name(k, m_raw) ==
    LET r == kern_call(k, "DropName", m_raw, TRUE) IN
    [k |-> r.k, log |-> <<Entry("DropName", m_raw, r.ok)>>, ok |-> r.ok]

(* into_id without mem::forget(self): the consumed object is dropped *)
into_id_noforget(k, m_raw) ==
    LET d == drop(k, m_raw) IN
    [k |-> d.k, log |-> d.log, raw |-> From_u32(as_raw(m_raw))]

(* Object::into_id: as_raw(), mem::forget(self), ObjId::from(raw_id) *)
into_id(k, m_raw) ==
    [k |-> k, log |-> <<>>, raw |-> From_u32(as_raw(m_raw))]

InitObj ==
    /\ hLive = [h \in Slots |-> FALSE]
    /\ hRaw = [h \in Slots |-> 0]
    /\ kern = [ref |-> [i \in ObjIds |-> 0],
               res |-> [i \in ObjIds |-> "none"],
               named |-> [i \in ObjIds |-> FALSE],
               inbox |-> <<>>]
    /\ klog = <<>>
    /\ lastOp = [op |-> "none", h |-> 0]
    /\ objPanic = FALSE

Did(o, h) == lastOp' = [op |-> o, h |-> h]

(* a new ObjId value is stored in the first slot that holds none *)
FreeSlot(n) == ~hLive[n] /\ \A m \in 1 .. (n - 1) : hLive[m]

(* ObjId::default(): the invalid handle *)
ObjDefault(n) ==
    /\ ~objPanic
    /\ FreeSlot(n)
    /\ hLive' = [hLive EXCEPT ![n] = TRUE]
    /\ hRaw' = [hRaw EXCEPT ![n] = 0]
    /\ klog' = <<>>
    /\ Did("default", n)
    /\ UNCHANGED <<kern, objPanic>>
    /\ UNCHANGED notObj

(* the kernel names a new object by the first identifier that is unused *)
Unused(id) == kern.res[id] = "none" /\ kern.ref[id] = 0 /\ id \notin InFlight(kern)
FreshId(id) == Unused(id) /\ \A i \in 1 .. (id - 1) : ~Unused(i)

(* a creation call: the kernel returns the identifier of a new object *)
ObjCreate(n, id, kind) ==
    /\ ~objPanic
    /\ FreeSlot(n)
    /\ FreshId(id)
    /\ kern' = KCreate(kern, id, kind)
    /\ hLive' = [hLive EXCEPT ![n] = TRUE]
    /\ hRaw' = [hRaw EXCEPT ![n] = From_usize(id)]
    /\ klog' = <<>>
    /\ Did("create", n)
    /\ UNCHANGED objPanic
    /\ UNCHANGED notObj

(* opening a permanent object by its name *)
ObjOpen(n, id) ==
    /\ ~objPanic
    /\ FreeSlot(n)
    /\ kern.res[id] = "permanent"
    /\ kern.named[id]
    /\ kern' = KOpen(kern, id)
    /\ hLive' = [hLive EXCEPT ![n] = TRUE]
    /\ hRaw' = [hRaw EXCEPT ![n] = From_usize(id)]
    /\ klog' = <<>>
    /\ Did("open", n)
    /\ UNCHANGED objPanic
    /\ UNCHANGED notObj

(* let n = h.clone() *)
ObjClone(h, n) ==
    /\ ~objPanic
    /\ hLive[h]
    /\ FreeSlot(n)
    /\ LET c == clone(kern, hRaw[h]) IN
       /\ kern' = c.k
       /\ klog' = c.log
       /\ objPanic' = c.panic
       /\ IF c.panic
            THEN UNCHANGED <<hLive, hRaw>>
            ELSE /\ hLive' = [hLive EXCEPT ![n] = TRUE]
                 /\ hRaw' = [hRaw EXCEPT ![n] = c.raw]
    /\ Did("clone", h)
    /\ UNCHANGED notObj

(* the handle in slot h goes out of scope *)
ObjDrop(h) ==
    /\ ~objPanic
    /\ hLive[h]
    /\ LET d == drop(kern, hRaw[h]) IN
       /\ kern' = d.k
       /\ klog' = d.log
       /\ objPanic' = d.panic
    /\ hLive' = [hLive EXCEPT ![h] = FALSE]
    /\ hRaw' = [hRaw EXCEPT ![h] = 0]
    /\ Did("drop", h)
    /\ UNCHANGED notObj

(* h.is_valid() *)
ObjIsValid(h) ==
    /\ ~objPanic
    /\ hLive[h]
    /\ LET v == is_valid(kern, hRaw[h]) IN
       /\ kern' = v.k
       /\ klog' = v.log
       /\ Did(IF v.ret THEN "is_valid_true" ELSE "is_valid_false", h)
    /\ UNCHANGED <<hLive, hRaw, objPanic>>
    /\ UNCHANGED notObj

(* the object wrapping the handle of slot h is consumed by into_id() *)
ObjIntoId(h) ==
    /\ ~objPanic
    /\ hLive[h]
    /\ LET r == into_id(kern, hRaw[h]) IN
       /\ kern' = r.k
       /\ klog' = r.log
       /\ hRaw' = [hRaw EXCEPT ![h] = r.raw]
    /\ Did("into_id", h)
    /\ UNCHANGED <<hLive, objPanic>>
    /\ UNCHANGED notObj

(* h.send(task) *)
ObjSend(h, receiver) ==
    /\ ~objPanic
    /\ hLive[h]
    /\ LET r == send(kern, hRaw[h], receiver) IN
       /\ kern' = r.k
       /\ klog' = r.log
       /\ hRaw' = [hRaw EXCEPT ![h] = r.raw]
       /\ hLive' = [hLive EXCEPT ![h] = r.live]
       /\ Did(IF r.ok THEN "send_ok" ELSE "send_err", h)
    /\ UNCHANGED objPanic
    /\ UNCHANGED notObj

(* h.recv(mode) on an existing handle *)
ObjRecv(h, typeOk) ==
    /\ ~objPanic
    /\ hLive[h]
    /\ LET r == recv(kern, hRaw[h], typeOk) IN
       /\ kern' = r.k
       /\ klog' = r.log
       /\ hRaw' = [hRaw EXCEPT ![h] = r.raw]
       /\ objPanic' = r.panic
       /\ Did(IF r.ok THEN "recv_ok" ELSE "recv_err", h)
    /\ UNCHANGED hLive
    /\ UNCHANGED notObj

(* Object::recv_new: recv on a default handle; on failure the default
   handle is dropped *)
ObjRecvNew(n, typeOk) ==
    /\ ~objPanic
    /\ FreeSlot(n)
    /\ LET r == recv(kern, 0, typeOk) IN
       IF r.ok
         THEN /\ kern' = r.k
              /\ klog' = r.log
              /\ hLive' = [hLive EXCEPT ![n] = TRUE]
              /\ hRaw' = [hRaw EXCEPT ![n] = r.raw]
              /\ objPanic' = r.panic
              /\ Did("recv_new_ok", n)
         ELSE LET d == drop(r.k, r.raw) IN
              /\ kern' = d.k
              /\ klog' = r.log \o d.log
              /\ objPanic' = d.panic
              /\ Did("recv_new_err", n)
              /\ UNCHANGED <<hLive, hRaw>>
    /\ UNCHANGED notObj

(* h.drop_name() *)
ObjDropName(h) ==
    /\ ~objPanic
    /\ hLive[h]
    /\ LET r == drop_name(kern, hRaw[h]) IN
       /\ kern' = r.k
       /\ klog' = r.log
       /\ Did(IF r.ok THEN "drop_name_ok" ELSE "drop_name_err", h)
    /\ UNCHANGED <<hLive, hRaw, objPanic>>
    /\ UNCHANGED notObj

(* let n = ObjId::from(h.as_raw()): the public conversions build a handle
   from the raw identifier of another one *)
ObjFromRaw(h, n) ==
    /\ ~objPanic
    /\ hLive[h]
    /\ FreeSlot(n)
    /\ hLive' = [hLive EXCEPT ![n] = TRUE]
    /\ hRaw' = [hRaw EXCEPT ![n] = From_u32(as_raw(hRaw[h]))]
    /\ klog' = <<>>
    /\ Did("from_raw", n)
    /\ UNCHANGED <<kern, objPanic>>
    /\ UNCHANGED notObj

(* create/open/recv, clone, drop, into_id, send, drop_name, is_valid *)
NextObj ==
    \/ \E n \in Slots : ObjDefault(n)
    \/ \E n \in Slots, id \in ObjIds, kind \in {"transient", "permanent"} :
          ObjCreate(n, id, kind)
    \/ \E n \in Slots, id \in ObjIds : ObjOpen(n, id)
    \/ \E h, n \in Slots : ObjClone(h, n)
    \/ \E h \in Slots : ObjDrop(h)
    \/ \E h \in Slots : ObjIsValid(h)
    \/ \E h \in Slots : ObjIntoId(h)
    \/ \E h \in Slots, receiver \in BOOLEAN : ObjSend(h, receiver)
    \/ \E h \in Slots, typeOk \in BOOLEAN : ObjRecv(h, typeOk)
    \/ \E n \in Slots, typeOk \in BOOLEAN : ObjRecvNew(n, typeOk)
    \/ \E h \in Slots : ObjDropName(h)

(***************************************************************************)
(* The handle operations of several threads and tasks, with the two kernel *)
(* calls of Drop for ObjId as separate steps                               *)
(***************************************************************************)
InitDrop == hDropping = {}

(* drop(), first call: `if self.is_valid()`; an invalid handle is gone
   without a Drop call *)
ObjDropIsValid(h) ==
    /\ ~objPanic
    /\ hLive[h]
    /\ h \notin hDropping
    /\ LET v == is_valid(kern, hRaw[h]) IN
       /\ kern' = v.k
       /\ klog' = v.log
       /\ IF v.ret
            THEN /\ hDropping' = hDropping \cup {h}
                 /\ Did("drop_is_valid", h)
                 /\ UNCHANGED <<hLive, hRaw>>
            ELSE /\ hLive' = [hLive EXCEPT ![h] = FALSE]
                 /\ hRaw' = [hRaw EXCEPT ![h] = 0]
                 /\ Did("drop_noop", h)
                 /\ UNCHANGED hDropping
    /\ UNCHANGED objPanic
    /\ UNCHANGED notObjDrop

(* drop(), second call: `self.kern_call_0(..Drop).unwrap()` *)
ObjDropCall(h) ==
    /\ ~objPanic
    /\ h \in hDropping
    /\ LET r == kern_call(kern, "Drop", hRaw[h], TRUE) IN
       /\ kern' = r.k
       /\ klog' = <<Entry("Drop", hRaw[h], r.ok)>>
       /\ objPanic' = ~r.ok
       /\ Did(IF r.ok THEN "drop_call" ELSE "drop_fatal", h)
    /\ hDropping' = hDropping \ {h}
    /\ hLive' = [hLive EXCEPT ![h] = FALSE]
    /\ hRaw' = [hRaw EXCEPT ![h] = 0]
    /\ UNCHANGED notObjDrop

(* the operations of the other threads and tasks use the handles that are
   not inside a drop *)
Usable(h) == h \notin hDropping

NextObjThreads ==
    \/ \E n \in Slots : ObjDefault(n)
    \/ \E n \in Slots, id \in ObjIds, kind \in {"transient", "permanent"} :
          ObjCreate(n, id, kind)
    \/ \E n \in Slots, id \in ObjIds : ObjOpen(n, id)
    \/ \E h, n \in Slots : Usable(h) /\ ObjClone(h, n)
    \/ \E h \in Slots : ObjDropIsValid(h)
    \/ \E h \in Slots : ObjDropCall(h)
    \/ \E h \in Slots : Usable(h) /\ ObjIsValid(h)
    \/ \E h \in Slots : Usable(h) /\ ObjIntoId(h)
    \/ \E h \in Slots, receiver \in BOOLEAN : Usable(h) /\ ObjSend(h, receiver)
    \/ \E h \in Slots, typeOk \in BOOLEAN : Usable(h) /\ ObjRecv(h, typeOk)
    \/ \E n \in Slots, typeOk \in BOOLEAN : ObjRecvNew(n, typeOk)
    \/ \E h \in Slots : Usable(h) /\ ObjDropName(h)
    \/ \E h, n \in Slots : Usable(h) /\ ObjFromRaw(h, n)

(* the whole public interface: NextObj and the raw conversions *)
NextObjPub ==
    \/ NextObj
    \/ \E h, n \in Slots : ObjFromRaw(h, n)

(***************************************************************************)
(* KernFnPath (LibApiData/sys/fn_path.rs) over the Kern*FnId enumerations  *)
(* of LibApiData/sys/codes.rs                                              *)
(***************************************************************************)
U16Mod == 65536

(* the variants of KernFnPath in declaration order *)
FnClasses ==
    <<"ObjConfig", "TaskConfig", "OsEntConfig", "Object", "Task", "Device",
      "Dir", "File", "IpcChan", "Iterator", "Link", "MMap", "Mutex",
      "TimeInst", "Path", "OsEntity", "OsUser", "OsGroup", "Proc", "Thread">>

(* the variants of the #[repr(u16)] enumeration each class carries, in
   declaration order: the n-th variant has discriminant n - 1 *)
FnIds(class) ==
    CASE class = "ObjConfig" -> <<"ApplyConfig">>
      [] class = "TaskConfig" -> <<"CreateTask", "InitFind">>
      [] class = "OsEntConfig" -> <<"CreateEntity", "InitFind">>
      [] class = "Object" -> <<"AddRef", "DropName", "Info", "UpdateInfo",
                               "Send", "Recv", "Watch", "IsValid">>
      [] class = "Task" -> <<"This", "Terminate", "Yield", "IsAlive">>
      [] class = "Device" -> <<"Read", "Write", "SetPos", "MapToMem", "IOSetup">>
      [] class = "Dir" -> <<"InitIter">>
      [] class = "File" -> <<"ReadData", "WriteData", "Copy", "Move", "SetPos",
                             "MapToMem">>
      [] class = "IpcChan" -> <<"Send", "Recv">>
      [] class = "Iterator" -> <<"NextValue", "SetBeginToEndPos",
                                 "SetEndToBeginPos">>
      [] class = "Link" -> <<"Deref", "ReferTo">>
      [] class = "MMap" -> <<"GetPtr", "DropPtr", "IsFile", "IsDevice">>
      [] class = "Mutex" -> <<"Lock", "TryLock", "Unlock", "IsLocked">>
      [] class = "TimeInst" -> <<"Now">>
      [] class = "Path" -> <<"Exists">>
      [] class = "OsEntity" -> <<"Name">>
      [] class = "OsUser" -> <<"Groups">>
      [] class = "OsGroup" -> <<"AddUser">>
      [] class = "Proc" -> <<"MainThread", "Mount", "UnMount">>
      [] class = "Thread" -> <<"WaitFor", "AddCleaner", "CallbackReturn",
                               "GetEntryData">>

(* a KernFnPath value: the class variant and the function id it carries *)
KernFnPath(class, fn) == [class |-> class, fn |-> fn]

(* every value of the type KernFnPath *)
DeclaredPaths ==
    UNION {{KernFnPath(FnClasses[i], FnIds(FnClasses[i])[j]) :
               j \in 1 .. Len(FnIds(FnClasses[i]))} : i \in 1 .. Len(FnClasses)}

NoPath == [class |-> "none", fn |-> "none"]
Ok(path) == [ok |-> TRUE, path |-> path]
Err == [ok |-> FALSE, path |-> NoPath]

(* `value as u16`: the low 16 bits of a usize *)
as_u16(value) == value % U16Mod

(* IntoPrimitive of a #[repr(u16)] enumeration: the discriminant *)
IntoPrimitive(class, fn) ==
    (CHOOSE j \in 1 .. Len(FnIds(class)) : FnIds(class)[j] = fn) - 1

(* TryFromPrimitive of a #[repr(u16)] enumeration: the variant with that
   discriminant, or an error *)
TryFromPrimitive(class, number) ==
    IF number < Len(FnIds(class))
      THEN [ok |-> TRUE, fn |-> FnIds(class)[number + 1]]
      ELSE [ok |-> FALSE, fn |-> "none"]

(* raw_fn_class with the numbers of Device and Dir exchanged *)
raw_fn_class_swapped(path) ==
    CASE path.class = "ObjConfig" -> 0
      [] path.class = "TaskConfig" -> 1
      [] path.class = "OsEntConfig" -> 2
      [] path.class = "Object" -> 3
      [] path.class = "Task" -> 4
      [] path.class = "Device" -> 6
      [] path.class = "Dir" -> 5
      [] path.class = "File" -> 7
      [] path.class = "IpcChan" -> 8
      [] path.class = "Iterator" -> 9
      [] path.class = "Link" -> 10
      [] path.class = "MMap" -> 11
      [] path.class = "Mutex" -> 12
      [] path.class = "TimeInst" -> 13
      [] path.class = "Path" -> 14
      [] path.class = "OsEntity" -> 15
      [] path.class = "OsUser" -> 16
      [] path.class = "OsGroup" -> 17
      [] path.class = "Proc" -> 18
      [] path.class = "Thread" -> 19

(* KernFnPath::raw_fn_class *)
raw_fn_class(path) ==
    CASE path.class = "ObjConfig" -> 0
      [] path.class = "TaskConfig" -> 1
      [] path.class = "OsEntConfig" -> 2
      [] path.class = "Object" -> 3
      [] path.class = "Task" -> 4
      [] path.class = "Device" -> 5
      [] path.class = "Dir" -> 6
      [] path.class = "File" -> 7
      [] path.class = "IpcChan" -> 8
      [] path.class = "Iterator" -> 9
      [] path.class = "Link" -> 10
      [] path.class = "MMap" -> 11
      [] path.class = "Mutex" -> 12
      [] path.class = "TimeInst" -> 13
      [] path.class = "Path" -> 14
      [] path.class = "OsEntity" -> 15
      [] path.class = "OsUser" -> 16
      [] path.class = "OsGroup" -> 17
      [] path.class = "Proc" -> 18
      [] path.class = "Thread" -> 19

(* KernFnPath::raw_fn_id *)
raw_fn_id(path) == IntoPrimitive(path.class, path.fn)

(* one arm of the match in try_from *)
TryArm(class, value) ==
    LET fn_id == TryFromPrimitive(class, as_u16(value)) IN
    IF fn_id.ok THEN Ok(KernFnPath(class, fn_id.fn)) ELSE Err

(* try_from that has no arm for the variant number 19 *)
try_from_short(variant, value) ==
    CASE variant = 0 -> TryArm("ObjConfig", value)
      [] variant = 1 -> TryArm("TaskConfig", value)
      [] variant = 2 -> TryArm("OsEntConfig", value)
      [] variant = 3 -> TryArm("Object", value)
      [] variant = 4 -> TryArm("Task", value)
      [] variant = 5 -> TryArm("Device", value)
      [] variant = 6 -> TryArm("Dir", value)
      [] variant = 7 -> TryArm("File", value)
      [] variant = 8 -> TryArm("IpcChan", value)
      [] variant = 9 -> TryArm("Iterator", value)
      [] variant = 10 -> TryArm("Link", value)
      [] variant = 11 -> TryArm("MMap", value)
      [] variant = 12 -> TryArm("Mutex", value)
      [] variant = 13 -> TryArm("TimeInst", value)
      [] variant = 14 -> TryArm("Path", value)
      [] variant = 15 -> TryArm("OsEntity", value)
      [] variant = 16 -> TryArm("OsUser", value)
      [] variant = 17 -> TryArm("OsGroup", value)
      [] variant = 18 -> TryArm("Proc", value)
      [] OTHER -> Err

(* impl TryFrom<(usize, usize)> for KernFnPath *)
try_from(variant, value) ==
    CASE variant = 0 -> TryArm("ObjConfig", value)
      [] variant = 1 -> TryArm("TaskConfig", value)
      [] variant = 2 -> TryArm("OsEntConfig", value)
      [] variant = 3 -> TryArm("Object", value)
      [] variant = 4 -> TryArm("Task", value)
      [] variant = 5 -> TryArm("Device", value)
      [] variant = 6 -> TryArm("Dir", value)
      [] variant = 7 -> TryArm("File", value)
      [] variant = 8 -> TryArm("IpcChan", value)
      [] variant = 9 -> TryArm("Iterator", value)
      [] variant = 10 -> TryArm("Link", value)
      [] variant = 11 -> TryArm("MMap", value)
      [] variant = 12 -> TryArm("Mutex", value)
      [] variant = 13 -> TryArm("TimeInst", value)
      [] variant = 14 -> TryArm("Path", value)
      [] variant = 15 -> TryArm("OsEntity", value)
      [] variant = 16 -> TryArm("OsUser", value)
      [] variant = 17 -> TryArm("OsGroup", value)
      [] variant = 18 -> TryArm("Proc", value)
      [] variant = 19 -> TryArm("Thread", value)
      [] OTHER -> Err

(* the usize values given to try_from: small ones, and the same ones with
   a bit above the low 16 set *)
ClassInputs == (0 .. MaxClassIn) \cup {U16Mod + j : j \in 0 .. MaxClassIn}
IdInputs == (0 .. MaxIdIn) \cup {U16Mod + j : j \in 0 .. MaxIdIn}

InitPath ==
    /\ fpState = "idle"
    /\ fpPath = NoPath
    /\ fpIn = <<0, 0>>
    /\ fpOut = Err

(* KernFnPath::try_from((path.raw_fn_class() as usize,
                         path.raw_fn_id() as usize)) *)
PathEncode(path) ==
    /\ fpState' = "encoded"
    /\ fpPath' = path
    /\ fpIn' = <<raw_fn_class(path), raw_fn_id(path)>>
    /\ fpOut' = try_from(raw_fn_class(path), raw_fn_id(path))
    /\ UNCHANGED notPath

(* KernFnPath::try_from((variant, value)) on two numbers of a trap frame *)
PathDecode(variant, value) ==
    /\ fpState' = "decoded"
    /\ fpPath' = NoPath
    /\ fpIn' = <<variant, value>>
    /\ fpOut' = try_from(variant, value)
    /\ UNCHANGED notPath

NextPath ==
    \/ \E path \in DeclaredPaths : PathEncode(path)
    \/ \E variant \in ClassInputs, value \in IdInputs : PathDecode(variant, value)

(***************************************************************************)
(* Slab (LibHeap/slab.rs). A FreeBlockList value is the record             *)
(* [first, count, next]: m_first, m_count and the m_next fields in memory  *)
(***************************************************************************)
(* the memory the supplier can hand out: MaxBlocks blocks and one byte *)
MaxSlabMem == MaxBlocks * BLOCK_SIZE + 1
Addrs == 1 .. MaxSlabMem

(* FreeBlockList::default() over memory that holds no link *)
DefaultList == [first |-> 0, count |-> 0, next |-> [a \in Addrs |-> 0]]

(* push that leaves m_count as it is *)
push_nocount(list, block) ==
    [first |-> block, count |-> list.count,
     next |-> [list.next EXCEPT ![block] = list.first]]

(* FreeBlockList::push *)
push(list, block) ==
    [first |-> block, count |-> list.count + 1,
     next |-> [list.next EXCEPT ![block] = list.first]]

(* pop that leaves m_count as it is *)
pop_keep_count(list) ==
    IF list.first = 0
      THEN [list |-> list, element |-> 0]
      ELSE [list |-> [first |-> list.next[list.first], count |-> list.count,
                      next |-> [list.next EXCEPT ![list.first] = 0]],
            element |-> list.first]

(* pop that counts down on an empty list as well *)
pop_count_always(list) ==
    IF list.first = 0
      THEN [list |-> [list EXCEPT !.count = @ - 1], element |-> 0]
      ELSE [list |-> [first |-> list.next[list.first], count |-> list.count - 1,
                      next |-> [list.next EXCEPT ![list.first] = 0]],
            element |-> list.first]

(* pop that returns the first block and leaves it linked *)
pop_peek(list) ==
    IF list.first = 0
      THEN [list |-> list, element |-> 0]
      ELSE [list |-> [list EXCEPT !.count = @ - 1], element |-> list.first]

(* FreeBlockList::pop: element 0 is None *)
pop(list) ==
    IF list.first = 0
      THEN [list |-> list, element |-> 0]
      ELSE [list |-> [first |-> list.next[list.first], count |-> list.count - 1,
                      next |-> [list.next EXCEPT ![list.first] = 0]],
            element |-> list.first]

(* the iterations i - 1, i - 2, .. 0 of the loop of extend *)
RECURSIVE ExtendFrom(_, _, _, _)
ExtendFrom(list, start_area_addr, i, block_size) ==
    IF i = 0
      THEN list
      ELSE ExtendFrom(push(list, start_area_addr + (i - 1) * block_size),
                      start_area_addr, i - 1, block_size)

(* extend that steps through the area by block_size - 1 bytes *)
extend_stride(list, start_area_addr, area_size, block_size) ==
    ExtendFrom(list, start_area_addr, area_size \div block_size,
               block_size - 1)

(* extend whose loop runs over 0 .. n - 1 without .rev() *)
RECURSIVE extend_forward(_, _, _, _)
extend_forward(list, start_area_addr, area_size, block_size) ==
    IF area_size \div block_size = 0
      THEN list
      ELSE extend_forward(push(list, start_area_addr),
                          start_area_addr + block_size,
                          area_size - block_size, block_size)

(* FreeBlockList::extend *)
extend(list, start_area_addr, area_size, block_size) ==
    ExtendFrom(list, start_area_addr, area_size \div block_size, block_size)

(* FreeBlockList::new *)
FreeBlockList_new(start_area_addr, area_size, block_size) ==
    extend(DefaultList, start_area_addr, area_size, block_size)

(* FreeBlockList::count, Slab::free_count *)
count(list) == list.count
free_count(list) == count(list)

(* FreeBlockList::is_emtpy, Slab::is_empty *)
is_emtpy(list) == list.count = 0
is_empty(list) == is_emtpy(list)

(* Slab::new *)
Slab_new(start_area_addr, area_size) ==
    FreeBlockList_new(start_area_addr, area_size, BLOCK_SIZE)

(* Slab::allocate: the parameter is named _layout and is not looked at;
   ret 0 is None *)
allocate(list, layout) ==
    LET r == pop(list) IN [list |-> r.list, ret |-> r.element]

(* Slab::deallocate *)
deallocate(list, nn_ptr) == push(list, nn_ptr)

None == [some |-> FALSE, ptr |-> 0, size |-> 0]
Some(ptr, size) == [some |-> TRUE, ptr |-> ptr, size |-> size]

(* add_region that returns the start of the region with the exceeding size *)
add_region_start(list, start_area_ptr, area_size) ==
    LET exceeding_area_size == area_size % BLOCK_SIZE
        size == IF exceeding_area_size > 0
                  THEN area_size - exceeding_area_size
                  ELSE area_size
    IN  [list |-> extend(list, start_area_ptr, size, BLOCK_SIZE),
         ret |-> IF exceeding_area_size > 0
                   THEN Some(start_area_ptr, exceeding_area_size)
                   ELSE None]

(* Slab::add_region *)
add_region(list, start_area_ptr, area_size) ==
    LET exceeding_area_size == area_size % BLOCK_SIZE
        size == IF exceeding_area_size > 0
                  THEN area_size - exceeding_area_size
                  ELSE area_size
    IN  [list |-> extend(list, start_area_ptr, size, BLOCK_SIZE),
         ret |-> IF exceeding_area_size > 0
                   THEN Some(start_area_ptr + size, exceeding_area_size)
                   ELSE None]

(* the FreeBlockList of the state *)
FreeList == [first |-> m_first, count |-> m_count, next |-> m_next]

SetList(list) ==
    /\ m_first' = list.first
    /\ m_count' = list.count
    /\ m_next' = list.next

(* the addresses of the blocks of a region, and of all regions *)
BlocksOf(region) == {region[1] + i * BLOCK_SIZE : i \in 0 .. region[2] - 1}
Blocks == UNION {BlocksOf(region) : region \in slRegions}

(* the bytes start .. start + size - 1 are memory the supplier did not
   hand out before (it hands out ascending addresses): the contract of new
   and add_region *)
FreshArea(start, size) ==
    /\ start = slBrk
    /\ start + size <= MaxSlabMem + 1

InitSlab ==
    /\ slBuilt = FALSE
    /\ m_first = 0
    /\ m_count = 0
    /\ m_next = [a \in Addrs |-> 0]
    /\ slOut = [a \in Addrs |-> 0]
    /\ slRegions = {}
    /\ slHanded = {}
    /\ slBrk = 1
    /\ slOp = [op |-> "none", ptr |-> 0, size |-> 0, ret |-> None]
    /\ slContract = TRUE

(* let slab = Slab::<BLOCK_SIZE>::new(start, size) *)
SlabNew(start, size) ==
    /\ ~slBuilt
    /\ FreshArea(start, size)
    /\ slBuilt' = TRUE
    /\ SetList(Slab_new(start, size))
    /\ slRegions' = {<<start, size \div BLOCK_SIZE>>}
    /\ slHanded' = {<<start, size>>}
    /\ slBrk' = start + size
    /\ slOp' = [op |-> "new", ptr |-> start, size |-> size, ret |-> None]
    /\ UNCHANGED <<slOut, slContract>>
    /\ UNCHANGED notSlab

(* slab.add_region(start, size) *)
SlabAddRegion(start, size) ==
    /\ slBuilt
    /\ slContract
    /\ Cardinality(slRegions) < MaxRegions
    /\ FreshArea(start, size)
    /\ LET r == add_region(FreeList, start, size) IN
       /\ SetList(r.list)
       /\ slOp' = [op |-> "add_region", ptr |-> start, size |-> size,
                   ret |-> r.ret]
    /\ slRegions' = slRegions \cup {<<start, size \div BLOCK_SIZE>>}
    /\ slHanded' = slHanded \cup {<<start, size>>}
    /\ slBrk' = start + size
    /\ UNCHANGED <<slBuilt, slOut, slContract>>
    /\ UNCHANGED notSlab

(* the number of pointers the caller holds *)
RECURSIVE SumOut(_, _)
SumOut(out, a) == IF a = 0 THEN 0 ELSE out[a] + SumOut(out, a - 1)
Outstanding == SumOut(slOut, MaxSlabMem)

(* the sizes of the layouts the caller asks for: one that fits a block and
   one that does not *)
Layouts == {BLOCK_SIZE, BLOCK_SIZE + 1}

(* slab.allocate(layout), by a caller that holds less than MaxOut blocks;
   slOp.size is layout.size() *)
SlabAllocate(layout) ==
    /\ slBuilt
    /\ slContract
    /\ Outstanding < MaxOut
    /\ LET r == allocate(FreeList, layout) IN
       /\ SetList(r.list)
       /\ slOut' = IF r.ret = 0 THEN slOut
                   ELSE [slOut EXCEPT ![r.ret] = @ + 1]
       /\ slOp' = [op |-> "allocate", ptr |-> 0, size |-> layout,
                   ret |-> IF r.ret = 0 THEN None ELSE Some(r.ret, BLOCK_SIZE)]
    /\ UNCHANGED <<slBuilt, slRegions, slHanded, slBrk, slContract>>
    /\ UNCHANGED notSlab

(* slab.deallocate(p, layout) of a pointer the caller got from allocate *)
SlabDeallocate(p) ==
    /\ slBuilt
    /\ slContract
    /\ slOut[p] > 0
    /\ SetList(deallocate(FreeList, p))
    /\ slOut' = [slOut EXCEPT ![p] = @ - 1]
    /\ slOp' = [op |-> "deallocate", ptr |-> p, size |-> 0, ret |-> None]
    /\ UNCHANGED <<slBuilt, slRegions, slHanded, slBrk, slContract>>
    /\ UNCHANGED notSlab

(* slab.deallocate(p, layout) directly after slab.deallocate(p, layout):
   the block is free already, a breach of the contract of deallocate, after
   which the behaviour is not followed further; the stores of push are done
   as compiled *)
SlabDoubleFree(p) ==
    /\ slBuilt
    /\ slContract
    /\ slOp.op = "deallocate"
    /\ slOp.ptr = p
    /\ p \in Blocks
    /\ slOut[p] = 0
    /\ SetList(deallocate(FreeList, p))
    /\ slContract' = FALSE
    /\ slOp' = [op |-> "deallocate", ptr |-> p, size |-> 0, ret |-> None]
    /\ UNCHANGED <<slBuilt, slRegions, slHanded, slBrk, slOut>>
    /\ UNCHANGED notSlab

NextSlab ==
    \/ \E start \in Addrs, size \in 0 .. MaxSlabMem : SlabNew(start, size)
    \/ \E start \in Addrs, size \in 0 .. MaxSlabMem : SlabAddRegion(start, size)
    \/ \E layout \in Layouts : SlabAllocate(layout)
    \/ \E p \in Addrs : SlabDeallocate(p)
    \/ \E p \in Addrs : SlabDoubleFree(p)

(***************************************************************************)
(* VirtAddr (Kernel/addr/virt_addr.rs) and the x86_64 HwVirtAddr           *)
(* (Kernel/arch/x86_64/addr/virt.rs)                                       *)
(***************************************************************************)
LimbMod == 65536
LimbSign == 32768
LimbBits == 16

(* the values of one limb of the inputs: the lowest ones, the two around
   the sign bit of the limb and the highest ones *)
LimbInputs ==
    (0 .. MaxLimb) \cup {LimbSign - 1, LimbSign}
        \cup {LimbMod - 1 - j : j \in 0 .. MaxLimb}

(* the usize values given to VirtAddr::from *)
WordInputs == {<<a, b, c, d>> : a, b, c, d \in LimbInputs}

(* x << 16 on a u64: the highest limb is shifted out *)
shl16(x) == <<x[2], x[3], x[4], 0>>

(* y >> 16 with zeroes shifted in (the shift of usize) *)
sar16_logical(y) == <<0, y[1], y[2], y[3]>>

(* (y as isize) >> 16: the sign bit of y is shifted in *)
sar16(y) ==
    <<IF y[1] >= LimbSign THEN LimbMod - 1 ELSE 0, y[1], y[2], y[3]>>

(* from that shifts back by 32 bits *)
HwVirtAddr_from_shift32(raw_virt_addr) ==
    [m_raw_virt_addr |-> sar16(sar16(shl16(raw_virt_addr)))]

(* impl From<usize> for HwVirtAddr *)
HwVirtAddr_from(raw_virt_addr) ==
    [m_raw_virt_addr |-> sar16(shl16(raw_virt_addr))]

(* impl Deref for HwVirtAddr *)
HwVirtAddr_deref(hw) == hw.m_raw_virt_addr

(* impl From<usize> for VirtAddr *)
VirtAddr_from(raw_virt_addr) ==
    [m_hw_virt_addr |-> HwVirtAddr_from(raw_virt_addr)]

(* impl Deref for VirtAddr *)
VirtAddr_deref(virt_addr) == HwVirtAddr_deref(virt_addr.m_hw_virt_addr)

ZeroWord == <<0, 0, 0, 0>>

InitAddr ==
    /\ vaState = "none"
    /\ vaIn = ZeroWord
    /\ vaAddr = VirtAddr_from(ZeroWord)
    /\ vaPrev = VirtAddr_from(ZeroWord)

(* let v = VirtAddr::from(x) *)
AddrFrom(x) ==
    /\ vaState = "none"
    /\ vaState' = "made"
    /\ vaIn' = x
    /\ vaAddr' = VirtAddr_from(x)
    /\ UNCHANGED vaPrev
    /\ UNCHANGED notAddr

(* let v = VirtAddr::from(v.deref().clone()) *)
AddrAgain ==
    /\ vaState = "made"
    /\ vaState' = "remade"
    /\ vaIn' = VirtAddr_deref(vaAddr)
    /\ vaAddr' = VirtAddr_from(VirtAddr_deref(vaAddr))
    /\ vaPrev' = vaAddr
    /\ UNCHANGED notAddr

NextAddr ==
    \/ \E x \in WordInputs : AddrFrom(x)
    \/ AddrAgain

(***************************************************************************)
(* Object::watch                                                           *)
(***************************************************************************)
UseBits == 0 .. (MaxUses - 1)
Watched == 1 .. MaxWatched

(* the filters a caller watches with: at least one ObjUse bit enabled *)
Filters == (SUBSET UseBits) \ {{}}

(* two use-filters overlap when they have a bit in common *)
Overlaps(f, g) == f \cap g # {}

(* kernel Watch that adds every registration, overlapping or not *)
KernWatch_merge(regs, filter) ==
    [ok |-> TRUE, regs |-> regs \cup {filter}]

(* kernel: the Watch call on an object with the registrations `regs` *)
KernWatch(regs, filter) ==
    IF \E g \in regs : Overlaps(filter, g)
      THEN [ok |-> FALSE, regs |-> regs]
      ELSE [ok |-> TRUE, regs |-> regs \cup {filter}]

(* ObjId::watch: kern_call_2(Watch, filter.into(), &thread_entry_data)
   .map(|_| ()) hands the kernel's Result to the caller *)
ObjId_watch(regs, filter) ==
    LET r == KernWatch(regs, filter) IN
    [ok |-> r.ok, regs |-> r.regs]

(* Object::watch: self.obj_handle().watch(filter, callback_fn) *)
watch(regs, filter) == ObjId_watch(regs, filter)

InitWatch ==
    /\ wRegs = [o \in Watched |-> {}]
    /\ wOp = [op |-> "none", obj |-> 0, filter |-> {}, ok |-> FALSE]

(* obj.watch(filter, callback) *)
ObjWatch(o, filter) ==
    /\ LET r == watch(wRegs[o], filter) IN
       /\ wRegs' = [wRegs EXCEPT ![o] = r.regs]
       /\ wOp' = [op |-> "watch", obj |-> o, filter |-> filter, ok |-> r.ok]
    /\ UNCHANGED notWatch

(* the callback of a registration ran and returned: true keeps the
   registration for the next event, false removes it *)
WatchCallback(o, filter, again) ==
    /\ filter \in wRegs[o]
    /\ wRegs' = [wRegs EXCEPT ![o] = IF again THEN @ ELSE @ \ {filter}]
    /\ wOp' = [op |-> "callback", obj |-> o, filter |-> {}, ok |-> again]
    /\ UNCHANGED notWatch

NextWatch ==
    \/ \E o \in Watched, filter \in Filters : ObjWatch(o, filter)
    \/ \E o \in Watched, filter \in Filters, again \in BOOLEAN :
          WatchCallback(o, filter, again)

(***************************************************************************)
(* BootInfos                                                               *)
(***************************************************************************)
(* the informations a bootloader or a previous stage can hand over *)
Infos == 1 .. MaxInfos

(* BootInfos::obtain: assert!(BOOT_INFOS_INNER.is_some()), then a reference
   to the stored value *)
obtain(inner) ==
    IF inner # 0
      THEN [panic |-> FALSE, m_inner |-> inner]
      ELSE [panic |-> TRUE, m_inner |-> 0]

(* from() without the assert!(BOOT_INFOS_INNER.is_none()) *)
BootInfos_from_noassert(inner, infos) ==
    LET o == obtain(infos) IN
    [panic |-> o.panic, inner |-> infos, stored |-> TRUE, m_inner |-> o.m_inner]

(* From<*const u8> and From<&Self> for BootInfos: the assert, the store of
   the informations obtained from the argument, Self::obtain() *)
BootInfos_from(inner, infos) ==
    IF inner # 0
      THEN [panic |-> TRUE, inner |-> inner, stored |-> FALSE, m_inner |-> 0]
      ELSE LET o == obtain(infos) IN
           [panic |-> o.panic, inner |-> infos, stored |-> TRUE,
            m_inner |-> o.m_inner]

InitBoot ==
    /\ BOOT_INFOS_INNER = 0
    /\ biRefs = <<>>
    /\ biInits = 0
    /\ biOp = [op |-> "none", infos |-> 0]
    /\ biPanic = FALSE

(* BootInfos::from(raw_info_ptr) (loader stage) or BootInfos::from(&rhs)
   (kernel core) *)
BootFrom(which, infos) ==
    /\ ~biPanic
    /\ Len(biRefs) < MaxBootRefs
    /\ LET r == BootInfos_from(BOOT_INFOS_INNER, infos) IN
       /\ BOOT_INFOS_INNER' = r.inner
       /\ biInits' = IF r.stored THEN biInits + 1 ELSE biInits
       /\ biPanic' = r.panic
       /\ biRefs' = IF r.panic THEN biRefs ELSE Append(biRefs, r.m_inner)
    /\ biOp' = [op |-> which, infos |-> infos]
    /\ UNCHANGED notBoot

(* BootInfos::obtain() *)
BootObtain ==
    /\ ~biPanic
    /\ Len(biRefs) < MaxBootRefs
    /\ LET r == obtain(BOOT_INFOS_INNER) IN
       /\ biPanic' = r.panic
       /\ biRefs' = IF r.panic THEN biRefs ELSE Append(biRefs, r.m_inner)
    /\ biOp' = [op |-> "obtain", infos |-> 0]
    /\ UNCHANGED <<BOOT_INFOS_INNER, biInits>>
    /\ UNCHANGED notBoot

(* a BootInfos instance goes out of scope *)
BootForget ==
    /\ ~biPanic
    /\ biRefs # <<>>
    /\ biRefs' = Tail(biRefs)
    /\ biOp' = [op |-> "forget", infos |-> 0]
    /\ UNCHANGED <<BOOT_INFOS_INNER, biInits, biPanic>>
    /\ UNCHANGED notBoot

NextBoot ==
    \/ \E which \in {"from_raw", "from_self"}, infos \in Infos :
          BootFrom(which, infos)
    \/ BootObtain
    \/ BootForget

(***************************************************************************)
(* Path                                                                    *)
(***************************************************************************)
(* a string is the sequence of its characters *)
SEPARATOR == "/"
PARENT_LINK == <<".", ".">>
SELF_LINK == <<".">>

Chars == {SEPARATOR, ".", "a"}

(* the raw paths given to from() and append_raw(): every string of at most
   MaxRawLen characters, and the two examples of the documentation *)
DocRawAbs == <<"/", "P", "/", "T", "/", "/", "/", ".", ".", "/", ".", "/", "S">>
DocRawRel == <<".", ".", "/", "S", "/", ".", "/", "T", "/", ".", ".", "/", "R">>
RawPaths ==
    UNION {[1 .. n -> Chars] : n \in 0 .. MaxRawLen} \cup {DocRawAbs, DocRawRel}

(* str::split(SEPARATOR).filter(|c| !c.is_empty()): `cur` is the component
   being read *)
RECURSIVE SplitFilter(_, _)
SplitFilter(str, cur) ==
    IF str = <<>>
      THEN IF cur = <<>> THEN <<>> ELSE <<cur>>
      ELSE IF Head(str) = SEPARATOR
             THEN (IF cur = <<>> THEN <<>> ELSE <<cur>>)
                      \o SplitFilter(Tail(str), <<>>)
             ELSE SplitFilter(Tail(str), Append(cur, Head(str)))

(* Path::default *)
Path_default == [m_buf |-> <<>>, m_abs |-> FALSE, panic |-> FALSE]

(* Path::as_str, Path::len, Path::is_empty, Path::is_absolute *)
as_str(path) == path.m_buf
Path_len(path) == Len(path.m_buf)
Path_is_empty(path) == Path_len(path) = 0
is_absolute(path) == path.m_abs

(* Path::components (PathComponentIter) *)
components(path) == SplitFilter(as_str(path), <<>>)

(* Path::last_is_separator *)
last_is_separator(path) ==
    IF as_str(path) = <<>>
      THEN FALSE
      ELSE as_str(path)[Len(as_str(path))] = SEPARATOR

(* may_pop_last that never lets a parent link remove a component *)
may_pop_last_never(path) == FALSE

(* Path::may_pop_last *)
may_pop_last(path) ==
    /\ Path_len(path) > 0 \/ is_absolute(path)
    /\ LET cs == components(path) IN
       IF cs = <<>> THEN TRUE ELSE cs[Len(cs)] # PARENT_LINK

(* Path::append_unchecked: the copy into m_buf panics when the slice ends
   behind the buffer *)
append_unchecked(path, c) ==
    IF Path_len(path) + Len(c) > VFS_PATH_LEN_MAX
      THEN [path EXCEPT !.panic = TRUE]
      ELSE [path EXCEPT !.m_buf = @ \o c]

(* Path::pop: the Path it leaves (the basename it returns is not kept) *)
Path_pop(path) ==
    LET cs == components(path) IN
    IF cs = <<>>
      THEN path
      ELSE LET len == Len(cs[Len(cs)])
               cut == [path EXCEPT !.m_buf = SubSeq(@, 1, Len(@) - len)]
           IN  IF last_is_separator(cut)
                 THEN [cut EXCEPT !.m_buf = SubSeq(@, 1, Len(@) - 1)]
                 ELSE cut

(* the for loop of append_raw over the components of the raw path *)
RECURSIVE AppendComponents(_, _)
AppendComponents(path, cs) ==
    IF cs = <<>> \/ path.panic
      THEN path
      ELSE LET c == Head(cs)
               need_sep ==
                   \/ Path_is_empty(path) /\ is_absolute(path)
                   \/ ~Path_is_empty(path) /\ ~last_is_separator(path)
               next ==
                   IF c = SELF_LINK
                     THEN path
                     ELSE IF c = PARENT_LINK /\ may_pop_last(path)
                            THEN Path_pop(path)
                            ELSE LET sep == IF need_sep
                                              THEN append_unchecked(path, <<SEPARATOR>>)
                                              ELSE path
                                 IN  IF sep.panic
                                       THEN sep
                                       ELSE append_unchecked(sep, c)
           IN  AppendComponents(next, Tail(cs))

(* Path::append_raw *)
append_raw(path, raw_path) ==
    LET start == IF raw_path # <<>> /\ Head(raw_path) = SEPARATOR
                   THEN [path EXCEPT !.m_buf = <<>>, !.m_abs = TRUE]
                   ELSE path
    IN  IF raw_path = <<SEPARATOR>>
          THEN append_unchecked(start, <<SEPARATOR>>)
          ELSE AppendComponents(start, SplitFilter(raw_path, <<>>))

(* From<&str> for Path *)
Path_from(raw_path) == append_raw(Path_default, raw_path)

InitVfs ==
    /\ vpPath = Path_default
    /\ vpOp = [op |-> "none", abs |-> FALSE, from |-> Path_default]

(* path.append_raw(raw_path) (also path += raw_path) with a raw path whose
   components fit the buffer *)
PathAppendRaw(raw_path) ==
    /\ LET r == append_raw(vpPath, raw_path)
           abs == raw_path # <<>> /\ Head(raw_path) = SEPARATOR
       IN  /\ ~r.panic
           /\ vpPath' = r
           /\ vpOp' = [op |-> "append_raw", abs |-> abs,
                       from |-> IF abs THEN Path_from(raw_path) ELSE Path_default]
    /\ UNCHANGED notVfs

(* path.pop() (also path -= 1) *)
PathPop ==
    /\ components(vpPath) # <<>>
    /\ vpPath' = Path_pop(vpPath)
    /\ vpOp' = [op |-> "pop", abs |-> FALSE, from |-> Path_default]
    /\ UNCHANGED notVfs

NextVfs ==
    \/ \E raw_path \in RawPaths : PathAppendRaw(raw_path)
    \/ PathPop

(***************************************************************************)
(* BitFlags<B, T>                                                          *)
(***************************************************************************)
(* the bit indices of B, and those that are values of the enumeration T *)
BitIndices == 0 .. (BIT_LEN - 1)
FlagValues == 0 .. (NumFlags - 1)

(* T::try_from(bit_index) is Ok for the values of T *)
T_try_from(bit_index) == bit_index \in FlagValues

(* TBitFields::bit_at and TBitFields::set_bit *)
bit_at(bits, bit_index) == bit_index \in bits
set_bit(bits, bit_index, bit_value) ==
    IF bit_value THEN bits \cup {bit_index} ELSE bits \ {bit_index}

(* BitFlags::new_zero *)
new_zero == {}

(* BitFlags::from_raw: None as soon as one index of 0..BIT_LEN is not a
   value of T *)
from_raw(raw_bits) ==
    IF \E bit_index \in BitIndices : ~T_try_from(bit_index)
      THEN [some |-> FALSE, value |-> {}]
      ELSE [some |-> TRUE, value |-> raw_bits]

(* BitFlags::from_raw_truncate: every index that is not a value of T is
   cleared *)
from_raw_truncate(raw_bits) ==
    {bit_index \in raw_bits : T_try_from(bit_index)}

(* BitFlags::is_enabled, BitFlags::set, BitFlags::set_enabled *)
is_enabled(flags, bit) == bit_at(flags, bit)
set(flags, bit, bit_value) == set_bit(flags, bit, bit_value)
set_enabled(flags, bit) == set(flags, bit, TRUE)

(* BitOr<T>, BitAnd<T>, BitXor<T> for BitFlags *)
bitor(flags, rhs) == set_enabled(flags, rhs)
bitand(flags, rhs) ==
    IF is_enabled(flags, rhs) THEN set_enabled(new_zero, rhs) ELSE new_zero
bitxor(flags, rhs) ==
    LET rhs_bf == set_enabled(new_zero, rhs) IN
    (flags \ rhs_bf) \cup (rhs_bf \ flags)

(* BitOrAssign<T>, BitAndAssign<T>, BitXorAssign<T> for BitFlags *)
bitor_assign(flags, rhs) == set_enabled(flags, rhs)
bitand_assign(flags, rhs) == set(flags, rhs, is_enabled(flags, rhs))
bitxor_assign(flags, rhs) ==
    LET rhs_bf == set_enabled(new_zero, rhs) IN
    (flags \ rhs_bf) \cup (rhs_bf \ flags)

BitOps == {"or", "and", "xor"}

InitBits ==
    /\ bfFlags = new_zero
    /\ bfOp = [op |-> "none", raw |-> {}, bit |-> 0, some |-> FALSE,
               value |-> {}]

(* BitFlags::from_raw(raw_bits); f takes the value when there is one *)
BfFromRaw(raw_bits) ==
    /\ LET r == from_raw(raw_bits) IN
       /\ bfFlags' = IF r.some THEN r.value ELSE bfFlags
       /\ bfOp' = [op |-> "from_raw", raw |-> raw_bits, bit |-> 0,
                   some |-> r.some, value |-> r.value]
    /\ UNCHANGED notBits

(* f = BitFlags::from_raw_truncate(raw_bits) *)
BfFromRawTruncate(raw_bits) ==
    /\ bfFlags' = from_raw_truncate(raw_bits)
    /\ bfOp' = [op |-> "from_raw_truncate", raw |-> raw_bits, bit |-> 0,
                some |-> TRUE, value |-> from_raw_truncate(raw_bits)]
    /\ UNCHANGED notBits

(* f | b, f & b, f ^ b: a new value, f stays *)
BfBinary(o, b) ==
    /\ bfOp' = [op |-> o, raw |-> {}, bit |-> b, some |-> TRUE,
                value |-> CASE o = "or" -> bitor(bfFlags, b)
                            [] o = "and" -> bitand(bfFlags, b)
                            [] o = "xor" -> bitxor(bfFlags, b)]
    /\ UNCHANGED bfFlags
    /\ UNCHANGED notBits

(* f |= b, f &= b, f ^= b *)
BfAssign(o, b) ==
    /\ bfFlags' = CASE o = "or" -> bitor_assign(bfFlags, b)
                    [] o = "and" -> bitand_assign(bfFlags, b)
                    [] o = "xor" -> bitxor_assign(bfFlags, b)
    /\ bfOp' = [op |-> o \o "_assign", raw |-> {}, bit |-> b, some |-> TRUE,
                value |-> bfFlags']
    /\ UNCHANGED notBits

NextBits ==
    \/ \E raw_bits \in SUBSET BitIndices : BfFromRaw(raw_bits)
    \/ \E raw_bits \in SUBSET BitIndices : BfFromRawTruncate(raw_bits)
    \/ \E o \in BitOps, b \in FlagValues : BfBinary(o, b)
    \/ \E o \in BitOps, b \in FlagValues : BfAssign(o, b)

(***************************************************************************)
(* LoggerInner and LoggerBuffer                                            *)
(***************************************************************************)
NewLine == "nl"
LogBytes == {NewLine, "a"}

(* the strings given to write_str *)
Chunks == UNION {[1 .. n -> LogBytes] : n \in 0 .. MaxChunk}

(* one turn of the loop of write_str_chunk that does not reset the buffer
   after the flush *)
push_byte_keep(st, byte, writer_ok) ==
    LET pushed == Append(st.bytes, byte) IN
    IF byte = NewLine
      THEN IF writer_ok
             THEN [bytes |-> pushed, out |-> st.out \o pushed, ok |-> TRUE]
             ELSE [bytes |-> pushed, out |-> st.out, ok |-> FALSE]
      ELSE [bytes |-> pushed, out |-> st.out, ok |-> TRUE]

(* one turn of the loop of write_str_chunk: push the byte; on the new-line
   call flush_callback with the whole buffer (write_in_buffer hands it to
   m_writer.write_str) and truncate the buffer, or return its error *)
push_byte(st, byte, writer_ok) ==
    LET pushed == Append(st.bytes, byte) IN
    IF byte = NewLine
      THEN IF writer_ok
             THEN [bytes |-> <<>>, out |-> st.out \o pushed, ok |-> TRUE]
             ELSE [bytes |-> pushed, out |-> st.out, ok |-> FALSE]
      ELSE [bytes |-> pushed, out |-> st.out, ok |-> TRUE]

(* LoggerBuffer::write_str_chunk: the loop over the bytes of str_chunk,
   left at the first flush that fails *)
RECURSIVE write_str_chunk(_, _, _)
write_str_chunk(st, str_chunk, writer_ok) ==
    IF str_chunk = <<>> \/ ~st.ok
      THEN st
      ELSE write_str_chunk(push_byte(st, Head(str_chunk), writer_ok),
                           Tail(str_chunk), writer_ok)

(* LoggerInner::write_in_buffer *)
write_in_buffer(buffer, out, str, writer_ok) ==
    IF buffer.some
      THEN write_str_chunk([bytes |-> buffer.bytes, out |-> out, ok |-> TRUE],
                           str, writer_ok)
      ELSE [bytes |-> buffer.bytes, out |-> out, ok |-> FALSE]

(* Write for LoggerInner: write_str *)
write_str(buffer, buffered, out, str, writer_ok) ==
    IF buffered
      THEN write_in_buffer(buffer, out, str, writer_ok)
      ELSE IF writer_ok
             THEN [bytes |-> buffer.bytes, out |-> out \o str, ok |-> TRUE]
             ELSE [bytes |-> buffer.bytes, out |-> out, ok |-> FALSE]

(* LoggerInner::new *)
InitLog ==
    /\ lgBuffer = [some |-> FALSE, bytes |-> <<>>]
    /\ m_buffered = FALSE
    /\ lgWriter = <<>>
    /\ lgWritten = <<>>
    /\ lgLine = TRUE
    /\ lgFailed = FALSE

(* LoggerInner::enable_buffering *)
LogEnableBuffering ==
    /\ lgBuffer' = IF lgBuffer.some THEN lgBuffer
                   ELSE [some |-> TRUE, bytes |-> <<>>]
    /\ m_buffered' = TRUE
    /\ UNCHANGED <<lgWriter, lgWritten, lgLine, lgFailed>>
    /\ UNCHANGED notLog

(* Logger::disable_buffering(keep_buffer) on a buffered LoggerInner *)
LogDisableBuffering(keep_buffer) ==
    /\ m_buffered
    /\ m_buffered' = FALSE
    /\ lgBuffer' = IF keep_buffer THEN lgBuffer
                   ELSE [some |-> FALSE, bytes |-> <<>>]
    /\ lgLine' = (lgLine /\ lgWritten = <<>>)
    /\ UNCHANGED <<lgWriter, lgWritten, lgFailed>>
    /\ UNCHANGED notLog

(* inner.write_str(str); the writer accepts what it is given or fails *)
LogWrite(str, writer_ok) ==
    /\ Len(lgWritten) + Len(str) <= MaxLog
    /\ LET r == write_str(lgBuffer, m_buffered, lgWriter, str, writer_ok) IN
       /\ lgBuffer' = [lgBuffer EXCEPT !.bytes = r.bytes]
       /\ lgWriter' = r.out
       /\ lgFailed' = (lgFailed \/ ~r.ok)
    /\ lgWritten' = lgWritten \o str
    /\ lgLine' = (lgLine /\ m_buffered)
    /\ UNCHANGED m_buffered
    /\ UNCHANGED notLog

NextLog ==
    \/ LogEnableBuffering
    \/ \E keep_buffer \in BOOLEAN : LogDisableBuffering(keep_buffer)
    \/ \E str \in Chunks, writer_ok \in BOOLEAN : LogWrite(str, writer_ok)

(***************************************************************************)
(* Mutex::is_locked                                                        *)
(***************************************************************************)
Lockers == 1 .. NumLockers

(* TBackRawMutex::do_try_lock by thread t: "Returns true when locked
   successfully, false otherwise" *)
do_try_lock(holder, t) ==
    IF holder = 0 THEN [ok |-> TRUE, holder |-> t]
                  ELSE [ok |-> FALSE, holder |-> holder]

(* TBackRawMutex::do_unlock: "Unlocks this Mutex" *)
do_unlock(holder) == 0

(* do_is_locked that calls do_unlock() whatever do_try_lock() answered *)
do_is_locked_unlock_always(try_ok) ==
    [unlock |-> TRUE, ret |-> ~try_ok]

(* TBackRawMutex::do_is_locked, after its do_try_lock(): unlock and answer
   false when the lock was taken, answer true otherwise *)
do_is_locked(try_ok) ==
    IF try_ok THEN [unlock |-> TRUE, ret |-> FALSE]
              ELSE [unlock |-> FALSE, ret |-> TRUE]

InitMx ==
    /\ mxHolder = 0
    /\ mxGuard = {}
    /\ mxProbe = [t \in Lockers |-> [pc |-> "none", ret |-> FALSE]]
    /\ mxBefore = [t \in Lockers |-> 0]
    /\ mxOp = [op |-> "none", t |-> 0, ret |-> FALSE]

(* Mutex::lock by a thread that holds no guard: do_lock() blocks until the
   raw mutex is free *)
MxLock(t) ==
    /\ mxProbe[t].pc = "none"
    /\ t \notin mxGuard
    /\ mxHolder = 0
    /\ mxHolder' = t
    /\ mxGuard' = mxGuard \cup {t}
    /\ mxOp' = [op |-> "lock", t |-> t, ret |-> TRUE]
    /\ UNCHANGED <<mxProbe, mxBefore>>
    /\ UNCHANGED notMx

(* Mutex::try_lock *)
MxTryLock(t) ==
    /\ mxProbe[t].pc = "none"
    /\ LET r == do_try_lock(mxHolder, t) IN
       /\ mxHolder' = r.holder
       /\ mxGuard' = IF r.ok THEN mxGuard \cup {t} ELSE mxGuard
       /\ mxOp' = [op |-> "try_lock", t |-> t, ret |-> r.ok]
    /\ UNCHANGED <<mxProbe, mxBefore>>
    /\ UNCHANGED notMx

(* the MutexDataGuard of thread t goes out of scope: do_unlock() *)
MxGuardDrop(t) ==
    /\ mxProbe[t].pc = "none"
    /\ t \in mxGuard
    /\ mxHolder' = do_unlock(mxHolder)
    /\ mxGuard' = mxGuard \ {t}
    /\ mxOp' = [op |-> "unlock", t |-> t, ret |-> TRUE]
    /\ UNCHANGED <<mxProbe, mxBefore>>
    /\ UNCHANGED notMx

(* Mutex::is_locked, first step: the do_try_lock() of do_is_locked(); when
   it fails the probe returns true at once *)
MxIsLocked(t) ==
    /\ mxProbe[t].pc = "none"
    /\ LET r == do_try_lock(mxHolder, t)
           p == do_is_locked(r.ok) IN
       /\ mxHolder' = r.holder
       /\ mxBefore' = [mxBefore EXCEPT ![t] = mxHolder]
       /\ IF p.unlock
            THEN /\ mxProbe' = [mxProbe EXCEPT ![t] = [pc |-> "unlock", ret |-> p.ret]]
                 /\ mxOp' = [op |-> "probing", t |-> t, ret |-> FALSE]
            ELSE /\ mxOp' = [op |-> "is_locked", t |-> t, ret |-> p.ret]
                 /\ UNCHANGED mxProbe
    /\ UNCHANGED mxGuard
    /\ UNCHANGED notMx

(* Mutex::is_locked, second step: do_unlock() and the answer *)
MxIsLockedUnlock(t) ==
    /\ mxProbe[t].pc = "unlock"
    /\ mxHolder' = do_unlock(mxHolder)
    /\ mxProbe' = [mxProbe EXCEPT ![t] = [pc |-> "none", ret |-> FALSE]]
    /\ mxOp' = [op |-> "is_locked", t |-> t, ret |-> mxProbe[t].ret]
    /\ UNCHANGED <<mxGuard, mxBefore>>
    /\ UNCHANGED notMx

NextMx ==
    \E t \in Lockers :
        \/ MxLock(t)
        \/ MxTryLock(t)
        \/ MxGuardDrop(t)
        \/ MxIsLocked(t)
        \/ MxIsLockedUnlock(t)

Init ==
    /\ InitHeap /\ InitObj /\ InitPath /\ InitSlab /\ InitAddr /\ InitWatch
    /\ InitBoot /\ InitVfs /\ InitBits /\ InitLog /\ InitMx /\ InitDrop

SpecObj == Init /\ [][NextObj]_vars

SpecObjPub == Init /\ [][NextObjPub]_vars

SpecHeap == Init /\ [][NextHeap]_vars

(* A thread inside a call is scheduled again and again (weak fairness of
   its next statement), and the mutex backend is fair: a thread whose
   do_lock() can succeed again and again does succeed (strong fairness). *)
SpecHeapFair ==
    /\ Init
    /\ [][NextHeapFair]_vars
    /\ \A t \in Threads : WF_vars(Running(t))
    /\ \A t \in Threads : SF_vars(MutexLock(t))

SpecPath == Init /\ [][NextPath]_vars

SpecSlab == Init /\ [][NextSlab]_vars

SpecAddr == Init /\ [][NextAddr]_vars

SpecWatch == Init /\ [][NextWatch]_vars

SpecBoot == Init /\ [][NextBoot]_vars

SpecVfs == Init /\ [][NextVfs]_vars

SpecBits == Init /\ [][NextBits]_vars

SpecLog == Init /\ [][NextLog]_vars

SpecMx == Init /\ [][NextMx]_vars

SpecObjThreads == Init /\ [][NextObjThreads]_vars

(***************************************************************************)
(* Claims on the lazily initialised locked heap                            *)
(***************************************************************************)
InHeap(t) == pc[t] \in {"heap", "unlock"}
PastLazy(t) == pc[t] \in {"lock", "heap", "unlock"}

(* C1: over any number of concurrent first accesses and any later calls the
   mutex supplier and Heap::new() run exactly once in total: never more
   than once, exactly once as soon as the heap is Ready, and a Ready heap
   never leaves the Ready state. *)
C1_InitExactlyOnce ==
    /\ [](/\ mtxCalls <= 1
          /\ heapCalls <= 1
          /\ (lazyState = "Uninitialized" => mtxCalls = 0 /\ heapCalls = 0)
          /\ (lazyState = "Ready" => mtxCalls = 1 /\ heapCalls = 1))
    /\ [][lazyState = "Ready" => lazyState' = "Ready"]_vars

(* every thread made its first access concurrently and all got through *)
C1_Witness ==
    /\ lazyState = "Ready"
    /\ mtxCalls = 1
    /\ heapCalls = 1
    /\ \A t \in Threads : PastLazy(t)

(* C2: a caller that got past the Lazy cell (it is taking the lock, is in
   the Heap or is releasing the lock) sees the completely constructed
   Mutex<Heap>; while the initialiser runs every other caller waits. *)
C2_NoPartialHeap ==
    /\ \A t \in Threads :
          PastLazy(t) => lazyState = "Ready" /\ rawMutex /\ heapBuilt
    /\ lazyState = "Initializing" =>
          Cardinality({t \in Threads : pc[t] \in {"call_once", "heap_new"}}) = 1

(* a caller waits at the Lazy cell while the initialiser is in Heap::new() *)
C2_Witness ==
    \E t, u \in Threads :
        /\ pc[t] = "heap_new"
        /\ pc[u] = "deref"
        /\ rawMutex
        /\ ~heapBuilt

(* C3: at most one thread at a time is inside the Heap, i.e. owns the
   MutexDataGuard; the owner is exactly the thread between lock and unlock *)
C3_MutualExclusion ==
    /\ Cardinality(guards) <= 1
    /\ guards = {t \in Threads : InHeap(t)}
    /\ (guards # {}) => locked

(* one thread is inside the Heap while another one is blocked in lock() *)
C3_Witness ==
    \E t, u \in Threads :
        /\ t # u
        /\ pc[t] = "heap"
        /\ pc[u] = "lock"
        /\ guards = {t}

(***************************************************************************)
(* Claims on the ObjId handle                                              *)
(***************************************************************************)
Names(id) == {h \in Slots : hLive[h] /\ hRaw[h] = id}
OthersSame(f, g, id) == \A i \in ObjIds : i # id => f[i] = g[i]

(* C4: after any sequence of create/open/recv, clone, drop and into_id the
   kernel reference count of every object equals the number of live handles
   that name it; a drop of a live handle of an object decrements its count
   exactly once, and into_id neither decrements nor increments. *)
C4_RefCountMatchesHandles ==
    /\ [](\A id \in ObjIds : kern.ref[id] = Cardinality(Names(id)))
    /\ [][/\ lastOp'.op = "into_id" =>
              /\ kern' = kern
              /\ klog' = <<>>
              /\ hLive' = hLive
              /\ hRaw' = hRaw
          /\ (lastOp'.op = "drop" /\ hRaw[lastOp'.h] # 0) =>
              /\ kern'.ref[hRaw[lastOp'.h]] = kern.ref[hRaw[lastOp'.h]] - 1
              /\ OthersSame(kern'.ref, kern.ref, hRaw[lastOp'.h])
              /\ ~hLive'[lastOp'.h]]_vars

(* into_id was applied to one of two handles of the same object *)
C4_Witness ==
    /\ lastOp.op = "into_id"
    /\ \E id \in ObjIds : kern.ref[id] = 2 /\ Cardinality(Names(id)) = 2

(* C5: no sequence of operations of the public interface yields a live
   handle with a non-zero raw identifier for which the kernel reference
   count was not incremented: the handles naming an object never outnumber
   its reference count. *)
C5_NoRawCopy ==
    \A id \in ObjIds : Cardinality(Names(id)) <= kern.ref[id]

(* C6: cloning a valid handle issues exactly one kernel call, AddRef, which
   raises the reference count of the named object by exactly 1 and nothing
   else, and yields a new handle with the same raw identifier. *)
C6_CloneAddRefOnce ==
    [][(/\ lastOp'.op = "clone"
        /\ hRaw[lastOp'.h] # 0
        /\ kern.ref[hRaw[lastOp'.h]] > 0) =>
          LET raw == hRaw[lastOp'.h] IN
          /\ klog' = <<Entry("AddRef", raw, TRUE)>>
          /\ kern'.ref[raw] = kern.ref[raw] + 1
          /\ OthersSame(kern'.ref, kern.ref, raw)
          /\ kern'.res = kern.res
          /\ ~objPanic'
          /\ \E n \in Slots :
                /\ ~hLive[n]
                /\ hLive'[n]
                /\ hRaw'[n] = raw
                /\ \A m \in Slots \ {n} : hLive'[m] = hLive[m] /\ hRaw'[m] = hRaw[m]
      ]_vars

(* a clone of a valid handle was made: two handles, count 2, one AddRef *)
C6_Witness ==
    /\ lastOp.op = "clone"
    /\ ~objPanic
    /\ Len(klog) = 1
    /\ klog[1].fn = "AddRef"
    /\ \E id \in ObjIds : Cardinality(Names(id)) = 2 /\ kern.ref[id] = 2

(* C7: a drop issues the kernel Drop call, which lowers the reference
   count by exactly 1, if and only if the handle is valid (raw # 0 and the
   kernel confirms the identifier is live); otherwise it issues no Drop call
   and changes no reference count. *)
C7_DropIffValid ==
    [][lastOp'.op = "drop" =>
          LET raw == hRaw[lastOp'.h] IN
          IF raw # 0 /\ kern.ref[raw] > 0
            THEN /\ klog' = <<Entry("IsValid", raw, TRUE), Entry("Drop", raw, TRUE)>>
                 /\ kern'.ref[raw] = kern.ref[raw] - 1
                 /\ OthersSame(kern'.ref, kern.ref, raw)
                 /\ ~objPanic'
            ELSE /\ \A i \in 1 .. Len(klog') : klog'[i].fn # "Drop"
                 /\ kern' = kern
                 /\ ~objPanic'
      ]_vars

(* a handle with a non-zero identifier that the kernel no longer knows was
   dropped: only the IsValid query was issued *)
C7_Witness ==
    /\ lastOp.op = "drop"
    /\ Len(klog) = 1
    /\ klog[1].fn = "IsValid"
    /\ ~klog[1].ok

(* C8: dropping a handle whose raw identifier is 0 issues no kernel call at
   all and changes nothing on the kernel side. *)
C8_DropInvalidNoCall ==
    [][(lastOp'.op = "drop" /\ hRaw[lastOp'.h] = 0) =>
          /\ klog' = <<>>
          /\ kern' = kern
          /\ ~objPanic'
      ]_vars

(* a default handle was dropped while an object is live *)
C8_Witness ==
    /\ lastOp.op = "drop"
    /\ klog = <<>>
    /\ \E id \in ObjIds : kern.ref[id] > 0

(* C9: is_valid() returns true exactly when raw # 0 and the kernel's
   IsValid query for the identifier succeeds; for a non-zero identifier the
   query is issued, and an identifier of a destroyed resource yields false *)
C9_IsValidLive ==
    lastOp.op \in {"is_valid_true", "is_valid_false"} =>
        LET raw == hRaw[lastOp.h]
            res == (lastOp.op = "is_valid_true") IN
        /\ res <=> (raw # 0 /\ kern.ref[raw] > 0)
        /\ raw # 0 => klog = <<Entry("IsValid", raw, res)>>
        /\ raw = 0 => klog = <<>>

(* is_valid() answered false for a non-zero identifier *)
C9_Witness ==
    /\ lastOp.op = "is_valid_false"
    /\ hRaw[lastOp.h] # 0
    /\ kern.ref[hRaw[lastOp.h]] = 0

(* C10: after a send, successful or not, the sender's handle has the raw
   identifier it had before, is exactly as valid as before and the
   reference counts are untouched, so that dropping it afterwards
   decrements the count of its object exactly once. *)
C10_SendShares ==
    [][lastOp'.op \in {"send_ok", "send_err"} =>
          LET h == lastOp'.h
              raw == hRaw[lastOp'.h] IN
          /\ hLive'[h]
          /\ hRaw'[h] = raw
          /\ kern'.ref = kern.ref
          /\ kern'.res = kern.res
          /\ is_valid(kern', hRaw'[h]).ret = (raw # 0 /\ kern.ref[raw] > 0)
          /\ (raw # 0 /\ kern.ref[raw] > 0) =>
                LET d == drop(kern', hRaw'[h]) IN
                /\ ~d.panic
                /\ d.k.ref[raw] = kern.ref[raw] - 1
                /\ OthersSame(d.k.ref, kern.ref, raw)
      ]_vars

(* a send succeeded: the identifier is in flight and the sender's handle is
   still there and counted *)
C10_Witness ==
    /\ lastOp.op = "send_ok"
    /\ kern.inbox # <<>>
    /\ hLive[lastOp.h]
    /\ hRaw[lastOp.h] = kern.inbox[Len(kern.inbox)]
    /\ kern.ref[hRaw[lastOp.h]] > 0

(* C11: after a successful recv or recv_new the handle is Valid: its raw
   identifier is the non-zero identifier the kernel returned for that Recv
   call (the head of the inbox), and the kernel holds a reference for it *)
C11_RecvStoresReturnedId ==
    [][lastOp'.op \in {"recv_ok", "recv_new_ok"} =>
         /\ kern.inbox # <<>>
         /\ hLive'[lastOp'.h]
         /\ hRaw'[lastOp'.h] = Head(kern.inbox)
         /\ hRaw'[lastOp'.h] # 0
         /\ is_valid(kern', hRaw'[lastOp'.h]).ret
         /\ klog'[1].fn = "Recv" /\ klog'[1].ok]_vars

(* C12: a successful recv into a handle that names a live object releases
   the previous identifier with one Drop call, issued after the Recv call
   and carrying the previous raw value, so that its count goes down exactly
   once, and the slot holds the received identifier afterwards *)
C12_RecvDropsPrevious ==
    [][(/\ lastOp'.op = "recv_ok"
        /\ KLive(kern, hRaw[lastOp'.h])) =>
         LET old == hRaw[lastOp'.h]
             new == Head(kern.inbox)
         IN  /\ klog' = <<Entry("Recv", old, TRUE), Entry("IsValid", old, TRUE),
                          Entry("Drop", old, TRUE)>>
             /\ hRaw'[lastOp'.h] = new
             /\ kern'.ref[old] = kern.ref[old] - 1 + (IF new = old THEN 1 ELSE 0)
             /\ new # old => kern'.ref[new] = kern.ref[new] + 1
             /\ \A id \in ObjIds \ {old, new} : kern'.ref[id] = kern.ref[id]]_vars

C12_Witness ==
    /\ lastOp.op = "recv_ok"
    /\ Len(klog) = 3
    /\ klog[3] = Entry("Drop", klog[1].id, TRUE)
    /\ hLive[lastOp.h]
    /\ kern.ref[hRaw[lastOp.h]] > 0

(***************************************************************************)
(* Claims on KernFnPath                                                    *)
(***************************************************************************)
(* the pair of numbers is the pair of a declared path *)
DeclaredPair(variant, value) ==
    \E path \in DeclaredPaths :
        raw_fn_class(path) = variant /\ raw_fn_id(path) = value

(* C13: for every declared (class, function id) pair, decoding the two
   numbers raw_fn_class and raw_fn_id give returns Ok of the same path *)
C13_RoundTrip ==
    fpState = "encoded" => fpOut = Ok(fpPath)

C13_Witness ==
    /\ fpState = "encoded"
    /\ fpPath = KernFnPath("Thread", "GetEntryData")
    /\ fpIn = <<19, 3>>
    /\ fpOut.ok

(* C14: for every pair of usize values that is not a declared pair (unknown
   class number, or an id the class does not declare) try_from returns
   Err(()) *)
C14_UndeclaredRejected ==
    (fpState = "decoded" /\ ~DeclaredPair(fpIn[1], fpIn[2])) => fpOut = Err

(* C15: raw_fn_class is injective on the classes and its image is the
   contiguous range 0 .. N-1, N the number of classes; try_from accepts a
   class number (returns Ok for some id) exactly when it is in that range *)
C15_ClassRange ==
    LET N == Len(FnClasses) IN
    /\ fpState = "encoded" =>
          /\ raw_fn_class(fpPath) \in 0 .. N - 1
          /\ \A other \in DeclaredPaths :
                raw_fn_class(other) = raw_fn_class(fpPath) =>
                    other.class = fpPath.class
          /\ {raw_fn_class(other) : other \in DeclaredPaths} = 0 .. N - 1
    /\ fpState = "decoded" =>
          /\ fpOut.ok => fpIn[1] \in 0 .. N - 1
          /\ fpIn[1] \in 0 .. N - 1 =>
                \E value \in IdInputs : try_from(fpIn[1], value).ok
          /\ fpIn[1] \notin 0 .. N - 1 =>
                \A value \in IdInputs : ~try_from(fpIn[1], value).ok

C15_Witness ==
    /\ fpState = "decoded"
    /\ fpIn[1] = Len(FnClasses)
    /\ fpOut = Err

(***************************************************************************)
(* Claims on the Slab                                                      *)
(***************************************************************************)
(* the nodes met by following m_next from a node, every node once *)
RECURSIVE Walk(_, _, _)
Walk(next, node, seen) ==
    IF node = 0 \/ node \in seen
      THEN <<>>
      ELSE <<node>> \o Walk(next, next[node], seen \cup {node})

(* the nodes reachable from m_first, in list order *)
Reachable == Walk(m_next, m_first, {})

(* the pointers that n calls of allocate return, and the list they leave *)
RECURSIVE PopN(_, _)
PopN(list, n) ==
    IF n = 0
      THEN [list |-> list, out |-> <<>>]
      ELSE LET r == allocate(list, BLOCK_SIZE)
               rest == PopN(r.list, n - 1)
           IN  [list |-> rest.list, out |-> <<r.ret>> \o rest.out]

(* C16: a Slab built over exactly 4 * BLOCK_SIZE bytes has free_count 4; an
   allocate on a non-empty slab lowers free_count by one and a deallocate
   raises it by one; an allocate made directly after deallocate(p) returns
   p (calls within the caller contract) *)
C16_CountAndLifo ==
    [][slContract' =>
         /\ (slOp'.op = "new" /\ slOp'.size = 4 * BLOCK_SIZE) =>
               free_count(FreeList') = 4
         /\ (slOp'.op = "allocate" /\ ~is_empty(FreeList)) =>
               /\ free_count(FreeList') = free_count(FreeList) - 1
               /\ slOp'.ret.some
         /\ slOp'.op = "deallocate" =>
               free_count(FreeList') = free_count(FreeList) + 1
         /\ (slOp.op = "deallocate" /\ slOp'.op = "allocate") =>
               slOp'.ret = Some(slOp.ptr, BLOCK_SIZE)]_vars

C16_Witness ==
    /\ slContract
    /\ slRegions = {<<1, 4>>}
    /\ slOp.op = "allocate"
    /\ slOp.ret.some
    /\ slOp.ret.ptr # 1
    /\ free_count(FreeList) = 3

(* C17: add_region(start, size) raises free_count by size div BLOCK_SIZE and
   returns Some((start + size - size % BLOCK_SIZE, size % BLOCK_SIZE)) when
   size % BLOCK_SIZE is not 0, and None otherwise *)
C17_AddRegionRemainder ==
    [][(slContract' /\ slOp'.op = "add_region") =>
         LET start == slOp'.ptr
             size == slOp'.size
         IN  /\ free_count(FreeList') =
                   free_count(FreeList) + size \div BLOCK_SIZE
             /\ slOp'.ret =
                   IF size % BLOCK_SIZE # 0
                     THEN Some(start + size - (size % BLOCK_SIZE),
                               size % BLOCK_SIZE)
                     ELSE None]_vars

C17_Witness ==
    /\ slOp.op = "add_region"
    /\ slOp.size >= BLOCK_SIZE
    /\ slOp.ret.some
    /\ slOp.ret.size > 0
    /\ slOp.ret.ptr > slOp.ptr

(* C18: directly after an extension by k blocks the next k calls of
   allocate return the blocks of the region in ascending address order, and
   leave the list as it was before the extension: the new blocks are ahead
   of every block that was free already *)
C18_RegionAscendingFirst ==
    [][(slContract' /\ slOp'.op \in {"new", "add_region"}) =>
         LET k == slOp'.size \div BLOCK_SIZE
             r == PopN(FreeList', k)
         IN  /\ r.out = [i \in 1 .. k |-> slOp'.ptr + (i - 1) * BLOCK_SIZE]
             /\ r.list = FreeList]_vars

C18_Witness ==
    /\ slOp.op = "add_region"
    /\ slOp.size \div BLOCK_SIZE >= 2
    /\ m_count > slOp.size \div BLOCK_SIZE
    /\ m_first = slOp.ptr
    /\ m_next[m_first] = m_first + BLOCK_SIZE

(* the statement of C19 for a state *)
CountIsLength ==
    /\ m_count = Len(Reachable)
    /\ is_empty(FreeList) <=> Reachable = <<>>

(* C19 as stated: at every point of any sequence of new, add_region,
   allocate and deallocate m_count is the number of nodes reachable from
   m_first, and is_empty() holds exactly when there is none *)
C19_AnySequence == slBuilt => CountIsLength

(* C19 amended: the same at every point of a sequence whose calls respect
   the caller contract of deallocate *)
C19_CountIsLength == (slBuilt /\ slContract) => CountIsLength

C19_Witness ==
    /\ slContract
    /\ slOp.op = "deallocate"
    /\ Cardinality(slRegions) = 2
    /\ m_count >= 3
    /\ Len(Reachable) = m_count

(* the number of times a block is in a sequence *)
Occurs(seq, b) == Cardinality({i \in 1 .. Len(seq) : seq[i] = b})

(* C20: under the caller contract every block of the slab is either held
   by the caller or linked exactly once in the free list, never both;
   allocate never returns a pointer the caller holds, and the pointers
   held are pairwise distinct *)
C20_ExclusiveOwnership ==
    [][slContract' =>
         LET linked == Reachable'
             blocks == Blocks'
         IN  /\ \A b \in blocks : slOut'[b] + Occurs(linked, b) = 1
             /\ \A a \in Addrs \ blocks :
                   slOut'[a] = 0 /\ Occurs(linked, a) = 0
             /\ (slOp'.op = "allocate" /\ slOp'.ret.some) =>
                   /\ slOut[slOp'.ret.ptr] = 0
                   /\ slOut'[slOp'.ret.ptr] = 1]_vars

C20_Witness ==
    /\ slContract
    /\ slOp.op = "allocate"
    /\ slOp.ret.some
    /\ Outstanding = 2
    /\ m_count >= 1
    /\ Cardinality(slRegions) = 2

(* the block of BLOCK_SIZE bytes at b lies inside the area, at a multiple of
   BLOCK_SIZE from its start and below the remainder of the area *)
InsideArea(b, area) ==
    /\ area[1] <= b
    /\ (b - area[1]) % BLOCK_SIZE = 0
    /\ b + BLOCK_SIZE <= area[1] + area[2]
    /\ b + BLOCK_SIZE <= area[1] + area[2] - (area[2] % BLOCK_SIZE)

(* C21: under the caller contract every block on the free list and every
   pointer the caller got from allocate lies entirely inside an area given
   with new or add_region, at an offset from the start of that area that is
   a multiple of BLOCK_SIZE, and does not reach into the remainder that
   add_region returned *)
C21_BlocksInsideRegions ==
    (slBuilt /\ slContract) =>
        LET linked == Reachable IN
        /\ \A i \in 1 .. Len(linked) :
              \E area \in slHanded : InsideArea(linked[i], area)
        /\ \A a \in Addrs :
              slOut[a] > 0 => \E area \in slHanded : InsideArea(a, area)
        /\ (slOp.op = "allocate" /\ slOp.ret.some) =>
              \E area \in slHanded : InsideArea(slOp.ret.ptr, area)

C21_Witness ==
    /\ slContract
    /\ slOp.op = "allocate"
    /\ slOp.ret.some
    /\ \E area \in slHanded :
          /\ area[2] % BLOCK_SIZE # 0
          /\ area[1] % BLOCK_SIZE # 1
          /\ InsideArea(slOp.ret.ptr, area)
    /\ m_count >= 1
    /\ Cardinality(slHanded) = 2

(* C22: allocate on a slab whose free list is empty returns None and leaves
   the slab as it was (free_count stays 0, no region is added, nothing is
   handed out); every allocate made while free_count() > 0 returns Some
   (calls within the caller contract) *)
C22_AllocateEmptyIsNone ==
    [][(slContract' /\ slOp'.op = "allocate") =>
         IF is_empty(FreeList)
           THEN /\ slOp'.ret = None
                /\ FreeList' = FreeList
                /\ free_count(FreeList') = 0
                /\ slOut' = slOut
                /\ slRegions' = slRegions
           ELSE /\ free_count(FreeList) > 0
                /\ slOp'.ret.some
                /\ slOp'.ret.ptr = m_first]_vars

C22_Witness ==
    /\ slContract
    /\ slOp.op = "allocate"
    /\ slOp.ret = None
    /\ free_count(FreeList) = 0
    /\ Outstanding >= 1

(* C23: allocate hands out a block only when layout.size() <= BLOCK_SIZE *)
C23_LayoutFitsBlock ==
    (slOp.op = "allocate" /\ slOp.ret.some) => slOp.size <= BLOCK_SIZE

(***************************************************************************)
(* Claims on VirtAddr                                                      *)
(***************************************************************************)
(* 2^n *)
RECURSIVE Pow2(_)
Pow2(n) == IF n = 0 THEN 1 ELSE 2 * Pow2(n - 1)

(* bit i of a word, bit 0 the least significant *)
Bit(word, i) == (word[4 - (i \div LimbBits)] \div Pow2(i % LimbBits)) % 2

(* C24: canonicalisation is idempotent: VirtAddr::from of the dereferenced
   raw value of a VirtAddr v made by VirtAddr::from has the raw value of v *)
C24_FromIdempotent ==
    vaState = "remade" => VirtAddr_deref(vaAddr) = VirtAddr_deref(vaPrev)

C24_Witness ==
    /\ vaState = "remade"
    /\ VirtAddr_deref(vaAddr) = <<LimbMod - 1, LimbSign, 0, 1>>
    /\ vaIn = VirtAddr_deref(vaAddr)

(* C25: for every x the raw value of VirtAddr::from(x) has its bits 47 to
   63 all equal and its low 48 bits equal to the low 48 bits of x *)
C25_SignExtended ==
    vaState = "made" =>
        LET raw == VirtAddr_deref(vaAddr) IN
        /\ \A i \in 47 .. 63 : Bit(raw, i) = Bit(raw, 47)
        /\ \A i \in 0 .. 47 : Bit(raw, i) = Bit(vaIn, i)

C25_Witness ==
    /\ vaState = "made"
    /\ vaIn = <<0, LimbSign, 1, 0>>
    /\ VirtAddr_deref(vaAddr) = <<LimbMod - 1, LimbSign, 1, 0>>

(***************************************************************************)
(* Claims on the life cycle and the failures of the locked heap            *)
(***************************************************************************)
(* the initialiser failed: a supplier was called and the value it had to
   give is missing while the thread is still at that statement *)
InitFailed ==
    \E t \in Threads :
        \/ pc[t] = "call_once" /\ mtxCalls > 0
        \/ pc[t] = "heap_new" /\ heapCalls > 0

(* C26: right after new() neither the mutex supplier nor Heap::new with
   the memory supplier has run; the Lazy cell leaves Uninitialized only in
   the first lock-taking call (alloc, dealloc of a non-null pointer, a stat
   accessor, force_init), the suppliers run only during that
   initialisation, and a force_init that returns leaves the heap Ready *)
C26_LazyUntilFirstUse ==
    /\ lazyState = "Uninitialized" /\ mtxCalls = 0 /\ heapCalls = 0 /\ memSup = 0
    /\ [][/\ lazyState = "Uninitialized" =>
               mtxCalls = 0 /\ heapCalls = 0 /\ memSup = 0
          /\ (lazyState = "Uninitialized" /\ lazyState' # "Uninitialized") =>
               \E t \in Threads :
                   /\ pc[t] = "deref" /\ pc'[t] = "call_once"
                   /\ op[t] \in LockOps
                   /\ op[t] = "dealloc" => owned[t] > 0
          /\ (mtxCalls' # mtxCalls \/ heapCalls' # heapCalls) =>
               lazyState = "Initializing"
          /\ \A t \in Threads :
               (op[t] = "force_init" /\ pc[t] = "unlock" /\ pc'[t] = "idle") =>
                   lazyState' = "Ready" /\ rawMutex' /\ heapBuilt']_vars

C26_Witness ==
    \E t \in Threads :
        /\ op[t] = "force_init"
        /\ pc[t] = "unlock"
        /\ lazyState = "Ready"
        /\ mtxCalls = 1
        /\ heapCalls = 1

(* C27: when the mutex supplier returns None or Heap::new fails, the
   initialiser panics: the cell stays Initializing for ever, no thread goes
   on, and nobody ever works on the heap without the mutex of a completed
   initialisation *)
C27_InitFailureIsFatal ==
    /\ InitFailed =>
          /\ heapPanic
          /\ lazyState = "Initializing"
          /\ ~heapBuilt
          /\ guards = {}
          /\ memUse = 0
    /\ lazyState = "Ready" => rawMutex /\ heapBuilt
    /\ \A t \in Threads :
          pc[t] \in {"lock", "heap", "unlock"} =>
              rawMutex /\ heapBuilt /\ lazyState = "Ready"
    /\ \A t \in Threads :
          pc[t] \in {"heap", "unlock"} => locked /\ t \in guards

C27_Witness ==
    /\ InitFailed
    /\ heapPanic
    /\ mtxCalls = 1
    /\ ~rawMutex
    /\ \E t \in Threads : pc[t] = "deref"

(* C28: dealloc with a null pointer panics at once: the call does not take
   the mutex, does not touch the Lazy cell and changes nothing of the heap;
   every dealloc that goes on towards the heap carries one of the caller's
   blocks, and the heap never gives back more than it handed out *)
C28_NullDeallocPanics ==
    [][/\ \A t \in Threads :
            (pc[t] = "idle" /\ op'[t] = "dealloc" /\ pc'[t] = "idle"
                /\ op[t] # "dealloc") =>
                /\ heapPanic'
                /\ UNCHANGED <<lazyState, rawMutex, heapBuilt, mtxCalls,
                               heapCalls, locked, guards, owned, memSup,
                               memUse>>
       /\ \A t \in Threads :
            (op'[t] = "dealloc" /\ pc'[t] \notin {"idle", "unlock"}) =>
                owned'[t] > 0
       /\ memUse' >= 0]_vars

C28_Witness ==
    \E t \in Threads :
        /\ pc[t] = "idle"
        /\ op[t] = "dealloc"
        /\ heapPanic
        /\ lazyState = "Ready"
        /\ ~locked
        /\ memUse > 0

(* C29: when Heap::allocate returns None, alloc returns the null pointer
   without a panic and without a change of the heap; the guard is dropped
   at the end of the call, so the mutex is free again and calls can go on *)
C29_AllocFailureIsNull ==
    [][\A t \in Threads :
          /\ (pc[t] = "heap" /\ op[t] = "alloc" /\ pc'[t] = "unlock"
                 /\ owned'[t] = owned[t]) =>
                /\ ret'[t] = NullPtr
                /\ ~heapPanic'
                /\ UNCHANGED <<memSup, memUse, owned>>
          /\ (pc[t] = "unlock" /\ pc'[t] = "idle") =>
                /\ ~locked'
                /\ t \notin guards'
                /\ ~heapPanic'
                /\ op'[t] = "none"]_vars

C29_Witness ==
    \E t \in Threads :
        /\ pc[t] = "unlock"
        /\ op[t] = "alloc"
        /\ ret[t] = NullPtr
        /\ memUse = MaxMem
        /\ t \in guards
        /\ ~heapPanic

(* C30: a thread holds the mutex exactly from its lock() to the end of
   the one Heap call made through the guard, so the mutex is taken only
   while some call is at its Heap call; and with fair scheduling and a fair
   mutex every call that was entered returns, unless the program stopped
   in a panic *)
C30_ShortSectionAndProgress ==
    /\ [](/\ \A t \in Threads : t \in guards <=> pc[t] \in {"heap", "unlock"}
          /\ locked <=> guards # {})
    /\ \A t \in Threads : (pc[t] # "idle") ~> (pc[t] = "idle" \/ heapPanic)

C30_Witness ==
    \E t, u \in Threads :
        /\ t # u
        /\ pc[t] = "lock"
        /\ pc[u] = "unlock"
        /\ locked
        /\ guards = {u}
        /\ ~heapPanic

(***************************************************************************)
(* Claims on Object::watch                                                 *)
(***************************************************************************)
(* C31: the live registrations of one object never share a bit; a watch
   whose filter overlaps a live registration of the same object returns an
   error and leaves every registration as it was, a watch with a filter
   disjoint from all of them returns Ok and adds exactly that
   registration, whatever is registered on other objects *)
C31_DisjointFilters ==
    /\ [](\A o \in Watched : \A f, g \in wRegs[o] : f # g => ~Overlaps(f, g))
    /\ [][(wOp'.op = "watch" /\ wOp' # wOp) =>
            LET o == wOp'.obj
                f == wOp'.filter
            IN  IF \E g \in wRegs[o] : Overlaps(f, g)
                  THEN ~wOp'.ok /\ wRegs' = wRegs
                  ELSE /\ wOp'.ok
                       /\ wRegs' = [wRegs EXCEPT ![o] = @ \cup {f}]]_vars

C31_Witness ==
    /\ wOp.op = "watch"
    /\ ~wOp.ok
    /\ \E g \in wRegs[wOp.obj] : g # wOp.filter /\ Overlaps(wOp.filter, g)
    /\ \E o \in Watched : o # wOp.obj /\ wOp.filter \in wRegs[o]

(***************************************************************************)
(* Claims on the lifetime of the kernel objects                            *)
(***************************************************************************)
(* C32: a transient object exists exactly while it is referenced: it is
   destroyed in the step that takes its count to 0. A permanent object
   survives a count of 0 while it is named, and is destroyed only in the
   step that drops the last reference after drop_name took its name; a
   successful drop_name only takes the name, so the handles that exist keep
   naming a live object, and no open by name succeeds on an object without
   name *)
C32_LifetimeByClass ==
    [][\A id \in ObjIds :
          /\ kern.res[id] = "transient" =>
                /\ kern.ref[id] > 0
                /\ (kern'.res[id] = "none") <=> (kern'.ref[id] = 0)
          /\ (kern.res[id] = "permanent" /\ kern'.ref[id] = 0 /\ kern.named[id]) =>
                kern'.res[id] = "permanent" /\ kern'.named[id]
          /\ (kern.res[id] = "permanent" /\ kern'.res[id] # "permanent") =>
                /\ ~kern.named[id]
                /\ kern.ref[id] = 1
                /\ kern'.ref[id] = 0
                /\ lastOp'.op \in {"drop", "recv_ok"}
          /\ (kern.res[id] = "permanent" /\ ~kern.named[id]) =>
                /\ kern.ref[id] > 0
                /\ ~kern'.named[id]
                /\ \A n \in Slots :
                      (lastOp' = [op |-> "open", h |-> n] /\ ~hLive[n]) =>
                          hRaw'[n] # id
          /\ \A h \in Slots :
                (lastOp' = [op |-> "drop_name_ok", h |-> h] /\ hRaw[h] = id) =>
                    /\ kern.res[id] = "permanent"
                    /\ kern.named[id]
                    /\ kern' = [kern EXCEPT !.named[id] = FALSE]
                    /\ hLive' = hLive
                    /\ hRaw' = hRaw
                    /\ is_valid(kern', hRaw'[h]).ret]_vars

C32_Witness ==
    \E id \in ObjIds, h \in Slots :
        /\ kern.res[id] = "permanent"
        /\ ~kern.named[id]
        /\ kern.ref[id] = 1
        /\ hLive[h]
        /\ hRaw[h] = id
        /\ lastOp = [op |-> "is_valid_true", h |-> h]

(***************************************************************************)
(* Claims on BootInfos                                                     *)
(***************************************************************************)
(* C33: BOOT_INFOS_INNER is assigned at most once: a from() that finds it
   Some panics and leaves the stored informations as they are, an obtain()
   that finds it None panics, and every BootInfos handed out refers to the
   informations stored by the one initialisation *)
C33_InitOnce ==
    /\ [](/\ biInits <= 1
          /\ biInits = 0 <=> BOOT_INFOS_INNER = 0
          /\ \A i \in 1 .. Len(biRefs) :
                biRefs[i] = BOOT_INFOS_INNER /\ biRefs[i] # 0)
    /\ [][/\ BOOT_INFOS_INNER # 0 => BOOT_INFOS_INNER' = BOOT_INFOS_INNER
          /\ (biOp'.op \in {"from_raw", "from_self"} /\ BOOT_INFOS_INNER # 0
                 /\ ~biPanic) =>
                biPanic' /\ biRefs' = biRefs /\ biInits' = biInits
          /\ (biOp'.op = "obtain" /\ BOOT_INFOS_INNER = 0 /\ ~biPanic) =>
                biPanic' /\ biRefs' = biRefs]_vars

C33_Witness ==
    /\ biPanic
    /\ biOp.op \in {"from_raw", "from_self"}
    /\ BOOT_INFOS_INNER # 0
    /\ biOp.infos # BOOT_INFOS_INNER
    /\ Len(biRefs) > 1

(***************************************************************************)
(* Claims on Path                                                          *)
(***************************************************************************)
(* the components from the first one that is not a parent link on *)
RECURSIVE AfterParents(_)
AfterParents(cs) ==
    IF cs = <<>> \/ Head(cs) # PARENT_LINK THEN cs ELSE AfterParents(Tail(cs))

(* a normal form: the string has no empty component (no two separators in
   a row, none at the end unless the string is the root alone), no
   self link, and parent links only at the start of a relative path *)
Normalized(path) ==
    LET str == as_str(path)
        cs == components(path)
        rest == IF str # <<>> /\ str[1] = SEPARATOR THEN cs ELSE AfterParents(cs)
    IN  /\ \A i \in 1 .. (Len(str) - 1) : ~(str[i] = SEPARATOR /\ str[i + 1] = SEPARATOR)
        /\ (str # <<>> /\ str[Len(str)] = SEPARATOR) => str = <<SEPARATOR>>
        /\ \A i \in 1 .. Len(cs) : cs[i] # SELF_LINK
        /\ \A i \in 1 .. Len(rest) : rest[i] # PARENT_LINK
        /\ (str # <<>> /\ str[1] = SEPARATOR) => is_absolute(path)

(* C34: after Path::from and any sequence of append_raw calls with raw
   paths that fit the buffer the path is in normal form; the two examples
   of the documentation normalise as written there; appending an absolute
   raw path leaves exactly Path::from of that raw path *)
C34_Normalised ==
    /\ Normalized(vpPath)
    /\ as_str(Path_from(DocRawAbs)) = <<"/", "P", "/", "S">>
    /\ as_str(Path_from(DocRawRel)) = <<".", ".", "/", "S", "/", "R">>
    /\ (vpOp.op = "append_raw" /\ vpOp.abs) => vpPath = vpOp.from

C34_Witness ==
    /\ vpOp.op = "append_raw"
    /\ ~vpOp.abs
    /\ as_str(vpPath) = <<".", ".", "/", ".", ".">>
    /\ ~is_absolute(vpPath)

(***************************************************************************)
(* Claims on BitFlags                                                      *)
(***************************************************************************)
(* C35: from_raw returns None exactly when raw_bits has a bit that is 1 at
   an index that is not a value of T, and otherwise Some with raw_bits as
   they were given *)
C35_FromRawExact ==
    bfOp.op = "from_raw" =>
        /\ bfOp.some <=> (\A bit_index \in bfOp.raw : T_try_from(bit_index))
        /\ bfOp.some => bfOp.value = bfOp.raw

(* C39: every compound assignment with a flag leaves in f the value the
   binary operator returns for the same f and the same flag; f &= b leaves
   bit b alone, if it was enabled, and nothing else *)
C39_AssignAgreesWithBinary ==
    [][/\ bfOp'.op = "or_assign" => bfFlags' = bitor(bfFlags, bfOp'.bit)
       /\ bfOp'.op = "xor_assign" => bfFlags' = bitxor(bfFlags, bfOp'.bit)
       /\ bfOp'.op = "and_assign" =>
             /\ bfFlags' = bitand(bfFlags, bfOp'.bit)
             /\ bfFlags' \subseteq {bfOp'.bit}]_vars

(***************************************************************************)
(* Claims on the Logger                                                    *)
(***************************************************************************)
(* C36 as stated: with the line-buffering enabled for every write, what the
   writer received followed by what is buffered is the concatenation of
   all strings written, whatever the writer answered *)
C36_NothingLost ==
    lgLine => lgWriter \o lgBuffer.bytes = lgWritten

(* C36: while every write was made with the line-buffering enabled and the
   writer accepted every flush, the writer received bytes only up to the
   last new-line written: what it received, followed by what is buffered,
   is the concatenation of all strings written, the writer's part ends
   with a new-line or is empty, and the buffer holds no new-line *)
C36_LineBuffered ==
    (lgLine /\ ~lgFailed) =>
        /\ lgWriter \o lgBuffer.bytes = lgWritten
        /\ lgWriter # <<>> => lgWriter[Len(lgWriter)] = NewLine
        /\ \A i \in 1 .. Len(lgBuffer.bytes) : lgBuffer.bytes[i] # NewLine

C36_Witness ==
    /\ lgLine
    /\ ~lgFailed
    /\ m_buffered
    /\ lgWriter = <<"a", NewLine>>
    /\ lgBuffer.bytes = <<"a">>

(***************************************************************************)
(* Claims on the failing Recv                                              *)
(***************************************************************************)
(* C37: a recv whose Recv kernel call fails leaves every handle as it was
   (same raw identifiers, same live handles), makes the Recv call only (no
   Drop, no fatal error) and changes no reference count; a failing
   recv_new creates no handle, changes no reference count and makes no
   Drop call for its default handle *)
C37_FailedRecvKeepsHandle ==
    [][/\ lastOp'.op = "recv_err" =>
             /\ hRaw' = hRaw
             /\ hLive' = hLive
             /\ kern'.ref = kern.ref
             /\ klog' = <<Entry("Recv", hRaw[lastOp'.h], FALSE)>>
             /\ ~objPanic'
       /\ lastOp'.op = "recv_new_err" =>
             /\ hRaw' = hRaw
             /\ hLive' = hLive
             /\ kern'.ref = kern.ref
             /\ klog' = <<Entry("Recv", 0, FALSE)>>
             /\ ~objPanic']_vars

C37_Witness ==
    /\ lastOp.op = "recv_err"
    /\ hLive[lastOp.h]
    /\ KLive(kern, hRaw[lastOp.h])
    /\ klog = <<Entry("Recv", hRaw[lastOp.h], FALSE)>>
    /\ ~objPanic

(***************************************************************************)
(* Claims on Mutex::is_locked                                              *)
(***************************************************************************)
(* the raw mutex is held by exactly the thread that owns the guard or is
   between the two calls of its probe *)
MxHeldBy(t) == t \in mxGuard \/ mxProbe[t].pc = "unlock"

(* C40: a probe never changes who holds the mutex: when is_locked returns,
   its answer is true exactly when the raw mutex was held at its
   do_try_lock(), the raw mutex is held by whom it was held then, the
   guards are those of before, and the prober is not left holding the
   lock; in every state the raw mutex is held by exactly the thread that
   owns the guard or is inside its probe, so no holder was unlocked *)
C40_ProbeKeepsHolder ==
    /\ [](\A t \in Lockers : MxHeldBy(t) <=> mxHolder = t)
    /\ [][mxOp'.op = "is_locked" =>
             /\ mxOp'.ret = (mxBefore'[mxOp'.t] # 0)
             /\ mxHolder' = mxBefore'[mxOp'.t]
             /\ mxGuard' = mxGuard
             /\ mxProbe'[mxOp'.t].pc = "none"]_vars

(* a probe that found the mutex free returned false with the mutex free
   again, after another probe had answered true meanwhile *)
C40_Witness ==
    /\ mxOp.op = "is_locked"
    /\ ~mxOp.ret
    /\ mxBefore[mxOp.t] = 0
    /\ mxHolder = 0
    /\ \E u \in Lockers : u # mxOp.t /\ mxBefore[u] = mxOp.t

(***************************************************************************)
(* Claims on the interleaved drop                                          *)
(***************************************************************************)
(* C38: whatever the other threads and tasks do between the two calls of
   a drop, the Drop call that follows a true is_valid() succeeds with
   exactly one decrement of the object's count, and no drop ends in a
   fatal error *)
C38_DropNeverFatal ==
    [][\A h \in Slots :
          (h \in hDropping /\ h \notin hDropping') =>
              /\ ~objPanic'
              /\ lastOp'.op # "drop_fatal"
              /\ kern'.ref[hRaw[h]] = kern.ref[hRaw[h]] - 1]_vars

====
